---- MODULE Spec2Model ----
(***************************************************************************)
(* Enforcement core of the parking permits API (src/index.ts on a D1 /    *)
(* SQLite database): live ticket issuance with its duplicate-ticket       *)
(* check, ticket voiding, the offline action queue and its replay         *)
(* (sync/process), the combined permit submission and the license plate   *)
(* lookup with its status resolution and recommended action.              *)
(*                                                                         *)
(* Time is counted in minutes since 0000-00-00T00:00Z.  Timestamps that   *)
(* reach the database are TEXT, so they are modelled as the text they are *)
(* (day, separator character, time of day) and compared the way SQLite    *)
(* compares TEXT: character by character.                                 *)
(***************************************************************************)
EXTENDS Integers, Sequences, FiniteSets, TLC

(* ---------------------------------------------------------------- bounds *)
\* clock steps next to the offline queue
MaxTicks == 1
\* clock steps next to live tickets
MaxTicketTicks == 3
\* storage faults during one sync/process run
MaxFaults == 1
\* rows of offline_actions
MaxActions == 2
\* rows of violations
MaxViolations == 2
\* successful void calls
MaxVoids == 1

(* ------------------------------------------------------------- constants *)
\* 60 * 60 * 1000 ms, checkDuplicateTicket
OneHourMinutes == 60
\* validateLicensePlate
MinLen == 2
\* validateLicensePlate
MaxLen == 8
MinutesPerDay == 24 * 60
InitialNow == 23 * 60    \* 23:00 of day 0: the runs cross one UTC midnight
TickStep == OneHourMinutes \div 2

\* an absent value (JavaScript undefined, SQL NULL) is the empty tuple and a
\* present value x is <<x>>, so that the two compare
NULL == << >>
Undefined == << >>
Some(x) == <<x>>

(* ------------------------------------------------------------ timestamps *)
\* SQLite CURRENT_TIMESTAMP: 'YYYY-MM-DD HH:MM:SS'
CurrentTimestamp(t) ==
    [day |-> t \div MinutesPerDay, sep |-> " ", tod |-> t % MinutesPerDay]

\* JavaScript Date.prototype.toISOString: 'YYYY-MM-DDTHH:MM:SS.sssZ'
toISOString(t) ==
    [day |-> t \div MinutesPerDay, sep |-> "T", tod |-> t % MinutesPerDay]

\* code point of the character at index 10 of the two formats
CharCode(ch) == IF ch = " " THEN 32 ELSE 84

\* SQLite's a > b on TEXT values (BINARY collation): the fixed-width date,
\* then the separator character, then the fixed-width time of day
TextGreater(a, b) ==
    \/ a.day > b.day
    \/ a.day = b.day /\ CharCode(a.sep) > CharCode(b.sep)
    \/ a.day = b.day /\ a.sep = b.sep /\ a.tod > b.tod

\* the instant a stored timestamp text denotes
InstantOf(txt) == txt.day * MinutesPerDay + txt.tod

(* ---------------------------------------------------------------- plates *)
UpperCaseChar(ch) ==
    CASE ch = "a" -> "A"
      [] ch = "b" -> "B"
      [] ch = "c" -> "C"
      [] OTHER -> ch

\* String.prototype.toUpperCase
toUpperCase(s) == [i \in 1..Len(s) |-> UpperCaseChar(s[i])]

AlnumUpper == {"A", "B", "C", "N", "Y", "1", "2", "3"}

validateLicensePlate(plate, state) ==
    /\ plate # << >>
    /\ state # << >>
    /\ Len(plate) >= MinLen
    /\ Len(plate) <= MaxLen
    /\ \A i \in 1..Len(plate) : UpperCaseChar(plate[i]) \in AlnumUpper

validateGPSCoordinates(latitude, longitude) ==
    /\ ~(latitude # Undefined /\ (latitude[1] < -90 \/ latitude[1] > 90))
    /\ ~(longitude # Undefined /\ (longitude[1] < -180 \/ longitude[1] > 180))

PlateABC123 == <<"A", "B", "C", "1", "2", "3">>
PlateLower == <<"a", "b", "c", "1", "2", "3">>
PlateBad == <<"A", "-", "1">>
StateCA == <<"C", "A">>
StateNY == <<"N", "Y">>

(* -------------------------------------------------------------- officers *)
\* rows of enforcement_officers: id -> is_active (officer CRUD is not modelled)
enforcement_officers == [O1 |-> TRUE, O2 |-> TRUE, O3 |-> FALSE]
OfficerIds == DOMAIN enforcement_officers
UnknownOfficer == "O9"
NoOfficer == ""

\* SELECT id FROM enforcement_officers WHERE id = ? AND is_active = TRUE
ActiveOfficer(id) == id \in OfficerIds /\ enforcement_officers[id]

(* ------------------------------------------------------------------- ids *)
ClientId(n) == <<"client", n>>
Uuid(n) == <<"uuid", n>>

VARIABLES
    now,                    \* the wall clock (minutes)
    violations,             \* rows of table violations
    warnings,               \* rows of table warnings
    enforcement_activities, \* rows of table enforcement_activities
    offline_actions,        \* rows of table offline_actions
    resp,                   \* the response of the last completed request
    reqs,                   \* requests in flight (stepwise specifications)
    tenants,                \* rows of table tenants
    vehicles,               \* rows of table vehicles
    permit_requests,        \* rows of table permit_requests
    permits,                \* rows of table permits
    shift_reports           \* rows of table shift_reports

tables == <<violations, warnings, enforcement_activities, offline_actions>>
registry == <<tenants, vehicles, permit_requests, permits>>
vars == <<now, violations, warnings, enforcement_activities, offline_actions,
          resp, reqs, tenants, vehicles, permit_requests, permits,
          shift_reports>>

SetMax(S) == CHOOSE x \in S : \A y \in S : y <= x

\* crypto.randomUUID(): an id that no row of the table it goes to carries
generateId(DB) ==
    Uuid(SetMax({r.id[2] : r \in {x \in DB : x.id[1] = "uuid"}} \cup {0}) + 1)

\* the rowid SQLite gives an inserted row: one more than the largest in use
NextRowid(DB) == SetMax({r.rowid : r \in DB} \cup {0}) + 1

StorageOutcomes == {"ok", "throws"}

\* (mutant) the check without its issued_by = ? condition
checkDuplicateTicket_AnyOfficer(DB, t, licensePlate, stateProvince, issuedBy) ==
    \E v \in DB :
        /\ v.license_plate = licensePlate
        /\ v.state_province = stateProvince
        /\ TextGreater(v.issued_at, toISOString(t - OneHourMinutes))
        /\ v.status # "voided"

(* ------------------------------------------------- duplicate-ticket check *)
\* SELECT id FROM violations WHERE license_plate = ? AND state_province = ?
\*   AND issued_by = ? AND issued_at > ? AND status != 'voided'
\* with ? = new Date(Date.now() - 60 * 60 * 1000).toISOString()
checkDuplicateTicket(DB, t, licensePlate, stateProvince, issuedBy) ==
    \E v \in DB :
        /\ v.license_plate = licensePlate
        /\ v.state_province = stateProvince
        /\ v.issued_by = issuedBy
        /\ TextGreater(v.issued_at, toISOString(t - OneHourMinutes))
        /\ v.status # "voided"

(* ------------------------------------------ POST /api/enforcement/tickets *)
\* the checks made before the duplicate check: 0 when they all pass
TicketPrecheck(body) ==
    IF \/ body.license_plate = << >> \/ body.state_province = << >>
       \/ body.issued_by = NoOfficer \/ ~body.violation_fields
    THEN 400
    ELSE IF ~validateLicensePlate(toUpperCase(body.license_plate),
                                  toUpperCase(body.state_province))
    THEN 400
    ELSE IF ~validateGPSCoordinates(body.gps_latitude, body.gps_longitude)
    THEN 400
    ELSE IF ~ActiveOfficer(body.issued_by)
    THEN 404
    ELSE 0

\* the row INSERT INTO violations writes; issued_at is not bound, so the
\* column default CURRENT_TIMESTAMP fills it
LiveViolation(DB, body, id, t) ==
    [rowid |-> NextRowid(DB),
     id |-> id,
     license_plate |-> toUpperCase(body.license_plate),
     state_province |-> toUpperCase(body.state_province),
     issued_by |-> body.issued_by,
     status |-> "issued",
     issued_at |-> CurrentTimestamp(t),
     voided_at |-> NULL,
     voided_reason |-> NULL]

\* the audit row logged after a ticket or a warning
LiveActivity(DB, body, id, type, result, t) ==
    [rowid |-> NextRowid(DB),
     id |-> id,
     officer_id |-> body.issued_by,
     activity_type |-> type,
     license_plate |-> toUpperCase(body.license_plate),
     state_province |-> toUpperCase(body.state_province),
     result |-> result,
     performed_at |-> CurrentTimestamp(t)]

\* The whole handler of one live ticket request.  insertOut and logOut are
\* what the two INSERT statements do (D1's run() rejects on failure).
IssueTicket(body, insertOut, logOut) ==
    LET pre == TicketPrecheck(body)
        plate == toUpperCase(body.license_plate)
        state == toUpperCase(body.state_province)
        violation == LiveViolation(violations, body, generateId(violations), now)
        activity == LiveActivity(enforcement_activities, body,
                                 generateId(enforcement_activities), "ticket",
                                 "violation_issued", now)
    IN
    /\ Cardinality(violations) < MaxViolations
    /\ IF pre # 0
       THEN /\ resp' = [op |-> "ticket", code |-> pre, body |-> body]
            /\ UNCHANGED <<violations, enforcement_activities>>
       ELSE IF checkDuplicateTicket(violations, now, plate, state, body.issued_by)
       THEN /\ resp' = [op |-> "ticket", code |-> 409, body |-> body]
            /\ UNCHANGED <<violations, enforcement_activities>>
       ELSE IF insertOut = "throws"
       THEN /\ resp' = [op |-> "ticket", code |-> 500, body |-> body]
            /\ UNCHANGED <<violations, enforcement_activities>>
       ELSE IF logOut = "throws"
       THEN /\ resp' = [op |-> "ticket", code |-> 500, body |-> body]
            /\ violations' = violations \cup {violation}
            /\ UNCHANGED enforcement_activities
       ELSE /\ resp' = [op |-> "ticket", code |-> 201, body |-> body,
                        data |-> violation]
            /\ violations' = violations \cup {violation}
            /\ enforcement_activities' = enforcement_activities \cup {activity}
    /\ UNCHANGED <<now, shift_reports,
                   warnings, offline_actions, reqs, registry>>

(* ------------------------- PUT /api/enforcement/tickets/:ticketId/void *)
\* (mutant) the handler without its test of ticket.status
VoidTicket_Silent(ticketId, voided_reason, updateOut) ==
    LET found == {v \in violations : v.id = ticketId} IN
    /\ (\E v \in found : v.status # "voided")
          => Cardinality({v \in violations : v.status = "voided"}) < MaxVoids
    /\ IF voided_reason = Undefined
       THEN /\ resp' = [op |-> "void", code |-> 400, id |-> ticketId]
            /\ UNCHANGED violations
       ELSE IF found = {}
       THEN /\ resp' = [op |-> "void", code |-> 404, id |-> ticketId]
            /\ UNCHANGED violations
       ELSE IF updateOut = "throws"
       THEN /\ resp' = [op |-> "void", code |-> 500, id |-> ticketId]
            /\ UNCHANGED violations
       ELSE /\ resp' = [op |-> "void", code |-> 200, id |-> ticketId]
            /\ violations' =
                 {IF v.id = ticketId
                  THEN [v EXCEPT !.status = "voided",
                                 !.voided_at = Some(CurrentTimestamp(now)),
                                 !.voided_reason = voided_reason]
                  ELSE v : v \in violations}
    /\ UNCHANGED <<now, shift_reports,
                   warnings, enforcement_activities, offline_actions, reqs,
                   registry>>

\* MaxVoids bounds the tickets that get voided, not the calls
VoidTicket(ticketId, voided_reason, updateOut) ==
    LET found == {v \in violations : v.id = ticketId} IN
    /\ (\E v \in found : v.status # "voided")
          => Cardinality({v \in violations : v.status = "voided"}) < MaxVoids
    /\ IF voided_reason = Undefined
       THEN /\ resp' = [op |-> "void", code |-> 400, id |-> ticketId]
            /\ UNCHANGED violations
       ELSE IF found = {}
       THEN /\ resp' = [op |-> "void", code |-> 404, id |-> ticketId]
            /\ UNCHANGED violations
       ELSE IF \E v \in found : v.status = "voided"
       THEN /\ resp' = [op |-> "void", code |-> 409, id |-> ticketId]
            /\ UNCHANGED violations
       ELSE IF updateOut = "throws"
       THEN /\ resp' = [op |-> "void", code |-> 500, id |-> ticketId]
            /\ UNCHANGED violations
       ELSE /\ resp' = [op |-> "void", code |-> 200, id |-> ticketId]
            /\ violations' =
                 {IF v.id = ticketId
                  THEN [v EXCEPT !.status = "voided",
                                 !.voided_at = Some(CurrentTimestamp(now)),
                                 !.voided_reason = voided_reason]
                  ELSE v : v \in violations}
    /\ UNCHANGED <<now, shift_reports,
                   warnings, enforcement_activities, offline_actions, reqs,
                   registry>>

(* ------------------------------------------------------------- the clock *)
Tick(limit) ==
    /\ now + TickStep <= InitialNow + limit * TickStep
    /\ now' = now + TickStep
    /\ UNCHANGED <<violations, warnings, enforcement_activities,
                   offline_actions, resp, reqs, registry, shift_reports>>

(* --------------------------------------- POST /api/enforcement/sync/queue *)
NoId == <<"undefined", 0>>

\* (mutant) the action is stored as synced at the instant it is queued
Enqueue_Synced(body, insertOut) ==
    LET offlineAction ==
            [id |-> generateId(offline_actions),
             officer_id |-> body.officer_id,
             action_type |-> body.action_type,
             action_data |-> body.action_data[1],
             performed_at |-> toISOString(body.performed_at[1]),
             synced_at |-> Some(CurrentTimestamp(now)),
             is_synced |-> TRUE]
    IN
    /\ Cardinality(offline_actions) < MaxActions
    /\ IF \/ body.officer_id = NoOfficer \/ body.action_type = ""
          \/ body.action_data = Undefined \/ body.performed_at = Undefined
       THEN /\ resp' = [op |-> "queue", code |-> 400]
            /\ UNCHANGED offline_actions
       ELSE IF \/ insertOut = "throws"
               \/ body.officer_id \notin OfficerIds
       THEN /\ resp' = [op |-> "queue", code |-> 500]
            /\ UNCHANGED offline_actions
       ELSE /\ resp' = [op |-> "queue", code |-> 201,
                        action_id |-> offlineAction.id]
            /\ offline_actions' = offline_actions \cup {offlineAction}
    /\ UNCHANGED <<now, shift_reports,
                   violations, warnings, enforcement_activities, reqs,
                   registry>>

\* body.action_data, when present, is <<payload>>; JSON.stringify followed by
\* JSON.parse gives the payload back with its absent fields still absent
Enqueue(body, insertOut) ==
    LET offlineAction ==
            [id |-> generateId(offline_actions),
             officer_id |-> body.officer_id,
             action_type |-> body.action_type,
             action_data |-> body.action_data[1],
             performed_at |-> toISOString(body.performed_at[1]),
             synced_at |-> NULL,
             is_synced |-> FALSE]
    IN
    /\ Cardinality(offline_actions) < MaxActions
    /\ IF \/ body.officer_id = NoOfficer \/ body.action_type = ""
          \/ body.action_data = Undefined \/ body.performed_at = Undefined
       THEN /\ resp' = [op |-> "queue", code |-> 400]
            /\ UNCHANGED offline_actions
       ELSE IF \/ insertOut = "throws"
               \/ body.officer_id \notin OfficerIds   \* FOREIGN KEY (officer_id)
       THEN /\ resp' = [op |-> "queue", code |-> 500]
            /\ UNCHANGED offline_actions
       ELSE /\ resp' = [op |-> "queue", code |-> 201,
                        action_id |-> offlineAction.id]
            /\ offline_actions' = offline_actions \cup {offlineAction}
    /\ UNCHANGED <<now, shift_reports,
                   violations, warnings, enforcement_activities, reqs,
                   registry>>

(* ------------------------------------- POST /api/enforcement/sync/process *)
\* (mutant) the query without its is_synced = FALSE condition
Unsynced_IgnoresFlag(DB, officer_id) ==
    {a \in DB : a.officer_id = officer_id}

\* SELECT * FROM offline_actions WHERE officer_id = ? AND is_synced = FALSE
Unsynced(DB, officer_id) ==
    {a \in DB : a.officer_id = officer_id /\ ~a.is_synced}

\* (mutant) the query without its ORDER BY clause
OrderedByPerformedAt_Unordered(S) ==
    {q \in [1..Cardinality(S) -> S] :
        \A i, j \in 1..Cardinality(S) : i # j => q[i] # q[j]}

\* ... ORDER BY performed_at ASC: every listing of the rows in which no row
\* comes before a row with a smaller performed_at (ties in either order)
OrderedByPerformedAt(S) ==
    {q \in [1..Cardinality(S) -> S] :
        /\ \A i, j \in 1..Cardinality(S) : i # j => q[i] # q[j]
        /\ \A i, j \in 1..Cardinality(S) :
              i < j => ~TextGreater(q[i].performed_at, q[j].performed_at)}

\* a bound parameter is undefined, or a NOT NULL column is left without value
BindFails(actionData) == actionData.id = NoId \/ ~actionData.required_fields

\* (mutant) violations without its PRIMARY KEY
ReplayTicket_NoPrimaryKey(st, action, insertOut) ==
    LET actionData == action.action_data
        row == [rowid |-> NextRowid(st.violations),
                id |-> actionData.id,
                license_plate |-> actionData.license_plate,
                state_province |-> actionData.state_province,
                issued_by |-> actionData.issued_by,
                status |-> "issued",
                issued_at |-> action.performed_at,
                voided_at |-> NULL,
                voided_reason |-> NULL]
        throws == \/ insertOut = "throws"
                  \/ BindFails(actionData)
                  \/ actionData.issued_by \notin OfficerIds
        result == [success |-> TRUE]   \* run() resolves only on success
    IN IF throws THEN [thrown |-> TRUE, st |-> st]
       ELSE IF result.success
       THEN [thrown |-> FALSE,
             st |-> [st EXCEPT !.violations = @ \cup {row},
                               !.successCount = @ + 1]]
       ELSE [thrown |-> FALSE, st |-> [st EXCEPT !.errorCount = @ + 1]]

\* case 'ticket': the INSERT INTO violations and what it does
ReplayTicket(st, action, insertOut) ==
    LET actionData == action.action_data
        row == [rowid |-> NextRowid(st.violations),
                id |-> actionData.id,
                license_plate |-> actionData.license_plate,
                state_province |-> actionData.state_province,
                issued_by |-> actionData.issued_by,
                status |-> "issued",
                issued_at |-> action.performed_at,
                voided_at |-> NULL,
                voided_reason |-> NULL]
        throws == \/ insertOut = "throws"
                  \/ BindFails(actionData)
                  \/ \E v \in st.violations : v.id = actionData.id  \* PRIMARY KEY
                  \/ actionData.issued_by \notin OfficerIds         \* FOREIGN KEY
        result == [success |-> TRUE]   \* run() resolves only on success
    IN IF throws THEN [thrown |-> TRUE, st |-> st]
       ELSE IF result.success
       THEN [thrown |-> FALSE,
             st |-> [st EXCEPT !.violations = @ \cup {row},
                               !.successCount = @ + 1]]
       ELSE [thrown |-> FALSE, st |-> [st EXCEPT !.errorCount = @ + 1]]

\* case 'warning': the INSERT INTO warnings
ReplayWarning(st, action, insertOut) ==
    LET actionData == action.action_data
        row == [rowid |-> NextRowid(st.warnings),
                id |-> actionData.id,
                license_plate |-> actionData.license_plate,
                state_province |-> actionData.state_province,
                issued_by |-> actionData.issued_by,
                issued_at |-> action.performed_at]
        throws == \/ insertOut = "throws"
                  \/ BindFails(actionData)
                  \/ \E w \in st.warnings : w.id = actionData.id
                  \/ actionData.issued_by \notin OfficerIds
        result == [success |-> TRUE]   \* run() resolves only on success
    IN IF throws THEN [thrown |-> TRUE, st |-> st]
       ELSE IF result.success
       THEN [thrown |-> FALSE,
             st |-> [st EXCEPT !.warnings = @ \cup {row},
                               !.successCount = @ + 1]]
       ELSE [thrown |-> FALSE, st |-> [st EXCEPT !.errorCount = @ + 1]]

\* case 'scan': the INSERT INTO enforcement_activities
ReplayScan(st, action, insertOut) ==
    LET actionData == action.action_data
        row == [rowid |-> NextRowid(st.enforcement_activities),
                id |-> actionData.id,
                officer_id |-> actionData.officer_id,
                activity_type |-> "scan",
                license_plate |-> actionData.license_plate,
                state_province |-> actionData.state_province,
                result |-> "scanned",
                performed_at |-> action.performed_at]
        throws == \/ insertOut = "throws"
                  \/ BindFails(actionData)
                  \/ \E e \in st.enforcement_activities : e.id = actionData.id
                  \/ actionData.officer_id \notin OfficerIds
        result == [success |-> TRUE]   \* run() resolves only on success
    IN IF throws THEN [thrown |-> TRUE, st |-> st]
       ELSE IF result.success
       THEN [thrown |-> FALSE,
             st |-> [st EXCEPT !.enforcement_activities = @ \cup {row},
                               !.successCount = @ + 1]]
       ELSE [thrown |-> FALSE, st |-> [st EXCEPT !.errorCount = @ + 1]]

\* the switch on action.action_type
ReplaySwitch(st, action, insertOut) ==
    CASE action.action_type = "ticket" -> ReplayTicket(st, action, insertOut)
      [] action.action_type = "warning" -> ReplayWarning(st, action, insertOut)
      [] action.action_type = "scan" -> ReplayScan(st, action, insertOut)
      [] OTHER -> [thrown |-> FALSE, st |-> [st EXCEPT !.errorCount = @ + 1]]

\* (mutant) the UPDATE matches no row
MarkSynced_NoRow(DB, id, t) == DB

\* UPDATE offline_actions SET is_synced = TRUE, synced_at = CURRENT_TIMESTAMP
MarkSynced(DB, id, t) ==
    {IF a.id = id
     THEN [a EXCEPT !.is_synced = TRUE, !.synced_at = Some(CurrentTimestamp(t))]
     ELSE a : a \in DB}

Detail(action, status) ==
    [action_id |-> action.id, action_type |-> action.action_type,
     status |-> status]

\* (mutant) the catch block marks the failed action synced
CatchActionError_MarksSynced(st, action) ==
    [st EXCEPT !.errorCount = @ + 1,
               !.processResults = Append(@, Detail(action, "error")),
               !.offline_actions =
                   {IF a.id = action.id THEN [a EXCEPT !.is_synced = TRUE]
                    ELSE a : a \in @}]

\* the catch block of one iteration
CatchActionError(st, action) ==
    [st EXCEPT !.errorCount = @ + 1,
               !.processResults = Append(@, Detail(action, "error"))]

\* one iteration of the loop: try { switch; mark synced; push } catch { ... }
ProcessAction(st, action, out, t) ==
    LET sw == ReplaySwitch(st, action, out.insert) IN
    IF sw.thrown
    THEN CatchActionError(sw.st, action)
    ELSE IF out.mark = "throws"
    THEN CatchActionError(sw.st, action)
    ELSE [sw.st EXCEPT
            !.offline_actions = MarkSynced(@, action.id, t),
            !.processResults = Append(@, Detail(action, "success"))]

RECURSIVE ProcessQueue(_, _, _, _, _)
ProcessQueue(queue, outs, i, st, t) ==
    IF i > Len(queue) THEN st
    ELSE ProcessQueue(queue, outs, i + 1,
                      ProcessAction(st, queue[i], outs[i], t), t)

\* what the statements of one iteration do; the UPDATE is reached only when
\* the INSERT succeeded
ExecOutcomes ==
    {o \in [insert : StorageOutcomes, mark : StorageOutcomes] :
        o.insert = "throws" => o.mark = "ok"}

\* The whole handler of one sync/process request: unsyncedActions is the
\* result of the query and outs[i] what the statements of iteration i do.
Reconcile(officer_id, unsyncedActions, outs) ==
    LET st0 == [violations |-> violations,
                warnings |-> warnings,
                enforcement_activities |-> enforcement_activities,
                offline_actions |-> offline_actions,
                successCount |-> 0,
                errorCount |-> 0,
                processResults |-> << >>]
        st == ProcessQueue(unsyncedActions, outs, 1, st0, now)
    IN
    /\ IF officer_id = NoOfficer
       THEN /\ resp' = [op |-> "process", code |-> 400]
            /\ UNCHANGED tables
       ELSE /\ unsyncedActions \in
                   OrderedByPerformedAt(Unsynced(offline_actions, officer_id))
            /\ violations' = st.violations
            /\ warnings' = st.warnings
            /\ enforcement_activities' = st.enforcement_activities
            /\ offline_actions' = st.offline_actions
            /\ resp' = [op |-> "process", code |-> 200,
                        officer_id |-> officer_id,
                        total_processed |-> Len(unsyncedActions),
                        success_count |-> st.successCount,
                        error_count |-> st.errorCount,
                        details |-> st.processResults]
    /\ UNCHANGED <<now, shift_reports, reqs, registry>>

(* ---------------------------------------------------------------- inputs *)
Procs == {"p1", "p2"}
SyncOfficers == {"O1", "O2"}

TicketBody(plate, state, officer) ==
    [license_plate |-> plate, state_province |-> state, issued_by |-> officer,
     violation_fields |-> TRUE, gps_latitude |-> Undefined,
     gps_longitude |-> Undefined]

Payload(id, plate, state, officer, complete) ==
    [id |-> id, license_plate |-> plate, state_province |-> state,
     issued_by |-> officer, officer_id |-> officer,
     required_fields |-> complete]

QueueBody(officer, type, payload, at) ==
    [officer_id |-> officer, action_type |-> type,
     action_data |-> Some(payload), performed_at |-> Some(at)]

\* requests to the queue endpoint, t being the later of the two instants at
\* which the officer acted in the field
QueueBodies(t) ==
    {QueueBody("O1", "ticket", Payload(ClientId(1), PlateABC123, StateCA, "O1", TRUE), at) :
        at \in {t, t - TickStep}}
    \cup {QueueBody("O1", "ticket",
                    Payload(ClientId(2), PlateABC123, StateCA, "O1", TRUE), t)}
    \cup {QueueBody("O1", "ticket",
                    Payload(NoId, PlateABC123, StateCA, "O1", FALSE), t)}
    \cup {QueueBody("O1", type, Payload(ClientId(1), PlateABC123, StateCA, "O1", TRUE), t) :
        type \in {"warning", "scan", "patrol"}}
    \cup {QueueBody("O2", "ticket", Payload(ClientId(2), PlateABC123, StateCA, "O2", TRUE), t),
          QueueBody(UnknownOfficer, "scan",
                    Payload(ClientId(1), PlateABC123, StateCA, UnknownOfficer, TRUE), t),
          [QueueBody("O1", "scan", Payload(ClientId(1), PlateABC123, StateCA, "O1", TRUE), t)
              EXCEPT !.performed_at = Undefined]}

(* --------------------------------------------------------- specifications *)
Init ==
    /\ now = InitialNow
    /\ violations = {}
    /\ warnings = {}
    /\ enforcement_activities = {}
    /\ offline_actions = {}
    /\ resp = [op |-> "none", code |-> 0]
    /\ reqs = [p \in Procs |-> [pc |-> "idle"]]
    /\ tenants = {}
    /\ vehicles = {}
    /\ permit_requests = {}
    /\ permits = {}
    /\ shift_reports = {}

Ok == [insert |-> "ok", mark |-> "ok"]

\* the outcomes of the statements of a run of n iterations
FaultChoices(n) ==
    {outs \in [1..n -> ExecOutcomes] :
        Cardinality({i \in 1..n : outs[i] # Ok}) <= MaxFaults}

DoEnqueue ==
    \E body \in QueueBodies(InitialNow), insertOut \in StorageOutcomes :
        Enqueue(body, insertOut)

DoReconcile ==
    \E officer_id \in SyncOfficers \cup {NoOfficer} :
        \E unsyncedActions \in
                OrderedByPerformedAt(Unsynced(offline_actions, officer_id)) :
            \E outs \in FaultChoices(Len(unsyncedActions)) :
                Reconcile(officer_id, unsyncedActions, outs)

Next ==
    \/ Tick(MaxTicks)
    \/ DoEnqueue
    \/ DoReconcile

Spec == Init /\ [][Next]_vars

(* ------------------------------------------------ the claimed window *)
\* a non-voided violation of the officer for the plate and jurisdiction was
\* issued within the hour before t
RecentTicket(DB, t, plate, state, officer) ==
    \E v \in DB :
        /\ v.license_plate = plate
        /\ v.state_province = state
        /\ v.issued_by = officer
        /\ v.status # "voided"
        /\ InstantOf(v.issued_at) > t - OneHourMinutes

(* ------------------------------------------------------- live tickets *)
\* requests to the ticket endpoint
TicketBodies ==
    {TicketBody(PlateABC123, StateCA, "O1"),
     TicketBody(PlateABC123, StateCA, "O2"),
     TicketBody(PlateLower, StateCA, "O1"),
     TicketBody(PlateABC123, StateNY, "O1"),
     TicketBody(PlateBad, StateCA, "O1"),
     TicketBody(<< >>, StateCA, "O1"),
     TicketBody(PlateABC123, StateCA, "O3"),
     TicketBody(PlateABC123, StateCA, UnknownOfficer),
     [TicketBody(PlateABC123, StateCA, "O1") EXCEPT !.violation_fields = FALSE],
     [TicketBody(PlateABC123, StateCA, "O1") EXCEPT !.gps_latitude = Some(91)],
     [TicketBody(PlateABC123, StateCA, "O1") EXCEPT !.gps_longitude = Some(-181)]}

DoLiveTicket ==
    \E body \in TicketBodies, insertOut, logOut \in StorageOutcomes :
        IssueTicket(body, insertOut, logOut)

DoVoidTicket ==
    \E ticketId \in {v.id : v \in violations} \cup {Uuid(0)},
       voided_reason \in {Undefined, Some("slip")},
       updateOut \in StorageOutcomes :
        VoidTicket(ticketId, voided_reason, updateOut)

NextTickets ==
    \/ Tick(MaxTicketTicks)
    \/ DoLiveTicket
    \/ DoVoidTicket

SpecTickets == Init /\ [][NextTickets]_vars

(* ------------------------------- live tickets, one statement at a time *)
\* A request p runs the handler of POST /api/enforcement/tickets with the
\* other requests interleaved at its awaits: the checks up to and including
\* the duplicate check, then the INSERT INTO violations, then the INSERT
\* INTO enforcement_activities.  reqs[p].saw holds the ids of the violations
\* that existed when p made its duplicate check.
RaceBodies ==
    {TicketBody(PlateABC123, StateCA, "O1"),
     TicketBody(PlateABC123, StateCA, "O2"),
     TicketBody(PlateBad, StateCA, "O1")}

Finish(p, code) == reqs' = [reqs EXCEPT ![p].pc = "done", ![p].code = code]

TicketBegin(p, body) ==
    LET pre == TicketPrecheck(body) IN
    /\ reqs[p].pc \in {"idle", "done"}
    /\ Cardinality(violations) < MaxViolations
    /\ reqs' = [reqs EXCEPT ![p] =
           [pc |-> IF pre # 0 THEN "done"
                   ELSE IF checkDuplicateTicket(violations, now,
                               toUpperCase(body.license_plate),
                               toUpperCase(body.state_province),
                               body.issued_by)
                   THEN "done" ELSE "insert",
            code |-> IF pre # 0 THEN pre
                     ELSE IF checkDuplicateTicket(violations, now,
                                 toUpperCase(body.license_plate),
                                 toUpperCase(body.state_province),
                                 body.issued_by)
                     THEN 409 ELSE 0,
            body |-> body,
            saw |-> {v.id : v \in violations},
            violation_id |-> NoId]]
    /\ UNCHANGED <<now, shift_reports, tables, resp, registry>>

TicketInsert(p, insertOut) ==
    LET violation == LiveViolation(violations, reqs[p].body,
                                   generateId(violations), now) IN
    /\ reqs[p].pc = "insert"
    /\ IF insertOut = "throws"
       THEN /\ Finish(p, 500)
            /\ UNCHANGED violations
       ELSE /\ violations' = violations \cup {violation}
            /\ reqs' = [reqs EXCEPT ![p].pc = "log",
                                    ![p].violation_id = violation.id]
    /\ UNCHANGED <<now, shift_reports,
                   warnings, enforcement_activities, offline_actions, resp,
                   registry>>

TicketLog(p, logOut) ==
    LET activity == LiveActivity(enforcement_activities, reqs[p].body,
                                 generateId(enforcement_activities), "ticket",
                                 "violation_issued", now) IN
    /\ reqs[p].pc = "log"
    /\ IF logOut = "throws"
       THEN /\ Finish(p, 500)
            /\ UNCHANGED enforcement_activities
       ELSE /\ Finish(p, 201)
            /\ enforcement_activities' = enforcement_activities \cup {activity}
    /\ UNCHANGED <<now, shift_reports,
                   violations, warnings, offline_actions, resp, registry>>

NextRace ==
    \/ Tick(MaxTicks)
    \/ \E p \in Procs, body \in RaceBodies : TicketBegin(p, body)
    \/ \E p \in Procs, insertOut \in StorageOutcomes : TicketInsert(p, insertOut)
    \/ \E p \in Procs, logOut \in StorageOutcomes : TicketLog(p, logOut)

SpecRace == Init /\ [][NextRace]_vars

(* -------------------------------------------------- live tickets: claims *)
\* C8: a live ticket request that passes validation while a non-voided
\* violation by the same officer for the same plate and jurisdiction was
\* issued within the last hour is answered 409 and inserts no violation.
C8_DuplicateRejected ==
    [][(now' = now /\ resp'.op = "ticket") =>
       \A body \in {resp'.body} : \A insertOut, logOut \in StorageOutcomes :
          (/\ IssueTicket(body, insertOut, logOut)
           /\ TicketPrecheck(body) = 0
           /\ RecentTicket(violations, now, toUpperCase(body.license_plate),
                           toUpperCase(body.state_province), body.issued_by))
          => resp'.code = 409 /\ violations' = violations
      ]_vars

\* C9: a live ticket request is not answered 409 unless the officer it names
\* has a non-voided violation for the plate and jurisdiction: the violations
\* of other officers never make it a duplicate.
C9_GuardIsPerOfficer ==
    [][(now' = now /\ resp'.op = "ticket" /\ resp'.code = 409) =>
       \A body \in {resp'.body} : \A insertOut, logOut \in StorageOutcomes :
          IssueTicket(body, insertOut, logOut)
          => \E v \in violations :
                /\ v.issued_by = body.issued_by
                /\ v.license_plate = toUpperCase(body.license_plate)
                /\ v.state_province = toUpperCase(body.state_province)
                /\ v.status # "voided"
      ]_vars

\* officer O2's ticket was accepted at an instant at which a request of
\* officer O1, who ticketed the plate within the hour, is a duplicate
C9_Witness ==
    /\ resp.op = "ticket" /\ resp.code = 201
    /\ resp.body.issued_by = "O2"
    /\ \E v \in violations :
          /\ v.issued_by = "O1"
          /\ v.license_plate = resp.data.license_plate
          /\ v.state_province = resp.data.state_province
          /\ v.rowid < resp.data.rowid
          /\ InstantOf(v.issued_at) > now - OneHourMinutes
          /\ checkDuplicateTicket(violations, now, v.license_plate,
                                  v.state_province, "O1")
    /\ resp.data \in violations

\* C10: of two live ticket requests by the same officer for the same plate
\* and jurisdiction that both made their duplicate check before either
\* inserted, at most one inserts a violation.
C10_StorageBackstop ==
    \A p, q \in Procs :
        (/\ p # q
         /\ reqs[p].pc # "idle" /\ reqs[q].pc # "idle"
         /\ reqs[p].body.issued_by = reqs[q].body.issued_by
         /\ toUpperCase(reqs[p].body.license_plate)
              = toUpperCase(reqs[q].body.license_plate)
         /\ toUpperCase(reqs[p].body.state_province)
              = toUpperCase(reqs[q].body.state_province)
         /\ reqs[p].violation_id # NoId
         /\ reqs[p].violation_id \notin reqs[q].saw)
        => \/ reqs[q].violation_id = NoId
           \/ reqs[q].violation_id \in reqs[p].saw

(* ------------------------------------------------- offline queue: claims *)
KnownTypes == {"ticket", "warning", "scan"}
ActionById(DB, id) == CHOOSE a \in DB : a.id = id
RowsWithId(DB, id) == {r \in DB : r.id = id}
PerformedAtOf(detail) ==
    InstantOf(ActionById(offline_actions, detail.action_id).performed_at)

\* the step leaves a sync/process response behind and the clock alone, as
\* every sync/process request does
ProcessResponded ==
    now' = now /\ resp'.op = "process" /\ resp'.code = 200

\* the table an action of a known type is replayed into
TargetTable(action, vs, ws, es) ==
    CASE action.action_type = "ticket" -> vs
      [] action.action_type = "warning" -> ws
      [] OTHER -> es

\* C1: a sync/process run that directly follows a run for the same officer
\* does not load any action the first run reported as succeeded: a replayed
\* ticket is synced after the first run and has exactly one violation row
\* before and after the second run, and when the first run had no failure the
\* second loads zero actions and changes no table.
C1_ReconcileTwice ==
    [][ProcessResponded =>
       \A o \in {resp'.officer_id} :
        \A q \in OrderedByPerformedAt(Unsynced(offline_actions, o)) :
          \A outs \in FaultChoices(Len(q)) :
            (/\ Reconcile(o, q, outs)
             /\ resp.op = "process" /\ resp.code = 200 /\ resp.officer_id = o)
            => /\ \A k \in 1..Len(resp.details) :
                    LET a == ActionById(offline_actions,
                                        resp.details[k].action_id) IN
                    (resp.details[k].status = "success"
                        /\ a.action_type = "ticket")
                    => /\ a.is_synced
                       /\ Cardinality(RowsWithId(violations, a.action_data.id)) = 1
                       /\ Cardinality(RowsWithId(violations', a.action_data.id)) = 1
                       /\ \A i \in 1..Len(q) : q[i].id # a.id
               /\ resp.error_count = 0
                    => resp'.total_processed = 0 /\ UNCHANGED tables
      ]_vars

C1_Witness ==
    /\ resp.op = "process" /\ resp.code = 200
    /\ resp.total_processed = 0
    /\ \E a \in offline_actions :
          /\ a.officer_id = resp.officer_id
          /\ a.action_type = "ticket"
          /\ a.is_synced
          /\ Cardinality(RowsWithId(violations, a.action_data.id)) = 1

\* iteration i of a run fails: one of its statements is rejected by the
\* storage, or a value it binds is missing
FailsAt(q, outs, i) ==
    \/ q[i].action_type \in KnownTypes
          /\ (outs[i].insert = "throws" \/ BindFails(q[i].action_data))
    \/ outs[i].mark = "throws"

\* iteration i of a run has nothing to fail on
CleanAt(q, outs, i) ==
    /\ q[i].action_type \in KnownTypes
    /\ outs[i] = Ok
    /\ ~BindFails(q[i].action_data)
    /\ q[i].action_data.issued_by \in OfficerIds
    /\ RowsWithId(TargetTable(q[i], violations, warnings,
                              enforcement_activities),
                  q[i].action_data.id) = {}
    /\ \A j \in 1..(i - 1) :
          ~(q[j].action_type = q[i].action_type
              /\ q[j].action_data.id = q[i].action_data.id)

C3_SyncedIsFinal ==
    [][\A a \in offline_actions :
        a.is_synced
        => /\ a \in offline_actions'
           /\ ProcessResponded =>
                \A o \in {resp'.officer_id} :
                \A q \in OrderedByPerformedAt(Unsynced(offline_actions, o)) :
                  \A outs \in FaultChoices(Len(q)) :
                    Reconcile(o, q, outs)
                    => /\ \A i \in 1..Len(q) : q[i].id # a.id
                       /\ \A k \in 1..Len(resp'.details) :
                             resp'.details[k].action_id # a.id
      ]_vars

C3_Witness ==
    /\ resp.op = "process" /\ resp.code = 200
    /\ resp.total_processed >= 1
    /\ \E a \in offline_actions :
          /\ a.officer_id = resp.officer_id
          /\ a.is_synced
          /\ InstantOf(a.synced_at[1]) < now
          /\ \A k \in 1..Len(resp.details) : resp.details[k].action_id # a.id

\* C4: in a sync/process run an action whose type is none of ticket, warning,
\* scan is counted as a failure and stays unsynced.
C4_UnknownTypeStaysUnsynced ==
    [][ProcessResponded =>
       \A o \in {resp'.officer_id} :
        \A q \in OrderedByPerformedAt(Unsynced(offline_actions, o)) :
          \A outs \in FaultChoices(Len(q)) :
            Reconcile(o, q, outs)
            => \A i \in 1..Len(q) :
                 q[i].action_type \notin KnownTypes
                 => /\ resp'.error_count >= 1
                    /\ q[i] \in Unsynced(offline_actions', o)
      ]_vars

\* C5: a replayed ticket is rejected (reported as failed, no violation row
\* created) when a non-voided violation by the same officer for the same
\* plate and jurisdiction exists within the last hour.
C5_ReplayAppliesGuard ==
    [][ProcessResponded =>
       \A o \in {resp'.officer_id} :
        \A q \in OrderedByPerformedAt(Unsynced(offline_actions, o)) :
          \A outs \in FaultChoices(Len(q)) :
            Reconcile(o, q, outs)
            => \A i \in 1..Len(q) :
                 (/\ q[i].action_type = "ticket"
                  /\ RecentTicket(violations, now,
                                  q[i].action_data.license_plate,
                                  q[i].action_data.state_province,
                                  q[i].action_data.issued_by))
                 => /\ resp'.details[i].status = "error"
                    /\ RowsWithId(violations', q[i].action_data.id)
                         = RowsWithId(violations, q[i].action_data.id)
      ]_vars

\* C6: a sync/process run handles the loaded actions in ascending order of
\* performed_at: an action performed earlier is never handled after one
\* performed later.
C6_OldestFirst ==
    [][ProcessResponded =>
       \A o \in {resp'.officer_id} :
        \A q \in OrderedByPerformedAt(Unsynced(offline_actions, o)) :
          \A outs \in FaultChoices(Len(q)) :
            Reconcile(o, q, outs)
            => /\ Len(resp'.details) = Cardinality(Unsynced(offline_actions, o))
               /\ \A i, j \in 1..Len(resp'.details) :
                    i < j => PerformedAtOf(resp'.details[i])
                               <= PerformedAtOf(resp'.details[j])
      ]_vars

C6_Witness ==
    /\ resp.op = "process" /\ resp.code = 200
    /\ Len(resp.details) = 2
    /\ PerformedAtOf(resp.details[1]) < PerformedAtOf(resp.details[2])
    /\ resp.details[1].action_id[2] > resp.details[2].action_id[2]

\* C7: no table ever holds two rows with the same id, so an offline action
\* never has more than one record carrying its payload's identifier, however
\* often it is replayed.
C7_OneRecordPerId ==
    /\ \A r1, r2 \in violations : r1.id = r2.id => r1 = r2
    /\ \A r1, r2 \in warnings : r1.id = r2.id => r1 = r2
    /\ \A r1, r2 \in enforcement_activities : r1.id = r2.id => r1 = r2

\* a run replayed a ticket whose row an earlier run had inserted without
\* getting to mark the action synced
C7_Witness ==
    /\ resp.op = "process" /\ resp.code = 200
    /\ resp.success_count = 0
    /\ \E k \in 1..Len(resp.details) :
          LET a == ActionById(offline_actions, resp.details[k].action_id) IN
          /\ a.action_type = "ticket"
          /\ ~a.is_synced
          /\ resp.details[k].status = "error"
          /\ Cardinality(RowsWithId(violations, a.action_data.id)) = 1
          /\ \A b \in offline_actions :
                b.action_data.id = a.action_data.id => b = a

(* ======================================================================= *)
(* Permit lifecycle: POST /api/submit-permit-request                       *)
(* ======================================================================= *)
\* permit requests accepted in one run
MaxRequests == 2

\* rows of permit_types as schema.sql seeds them: id -> is_active
permit_types ==
    [guest |-> TRUE, resident |-> TRUE, temporary |-> TRUE, commercial |-> TRUE]

\* SELECT id FROM permit_types WHERE id = ? AND is_active = TRUE
ActivePermitType(id) == id \in DOMAIN permit_types /\ permit_types[id]

\* String.prototype.toLowerCase on the e-mail addresses of the model
toLowerCase(email) == IF email = "A@X.IO" THEN "a@x.io" ELSE email

\* /^[^\s@]+@[^\s@]+\.[^\s@]+$/ on the e-mail addresses of the model
emailRegex(email) == email \in {"a@x.io", "A@X.IO", "b@x.io"}

\* date.toISOString().split('T')[0]: the text 'YYYY-MM-DD' of the UTC day,
\* modelled as the day's number (fixed-width dates order like the days)
DateText(t) == t \div MinutesPerDay

\* new Date('YYYY-MM-DD'): midnight UTC of that day
ParseDate(d) == d * MinutesPerDay

\* body.permit_type_id || 'guest'
PermitTypeOf(body) ==
    IF body.permit_type_id = Undefined THEN "guest" ELSE body.permit_type_id[1]

\* body.requested_start_date ? new Date(...) : new Date()
RequestedStart(body, t) ==
    IF body.requested_start_date = Undefined THEN t
    ELSE body.requested_start_date[1]

\* body.requested_end_date ? new Date(...) : new Date(Date.now() + 24h)
RequestedEnd(body, t) ==
    IF body.requested_end_date = Undefined THEN t + MinutesPerDay
    ELSE body.requested_end_date[1]

\* (mutant) the checks without the comparison of the two ends of the window
SubmitPrecheck_NoOrder(body, t) ==
    IF \/ ~body.required_fields \/ body.email = ""
       \/ body.license_plate = << >> \/ body.state_province = << >>
    THEN 400
    ELSE IF ~emailRegex(body.email)
    THEN 400
    ELSE IF ~validateLicensePlate(toUpperCase(body.license_plate),
                                  toUpperCase(body.state_province))
    THEN 400
    ELSE IF RequestedStart(body, t) < t - MinutesPerDay
    THEN 400
    ELSE IF ~ActivePermitType(PermitTypeOf(body))
    THEN 404
    ELSE 0

\* (mutant) the checks without the permit type query
SubmitPrecheck_NoType(body, t) ==
    IF \/ ~body.required_fields \/ body.email = ""
       \/ body.license_plate = << >> \/ body.state_province = << >>
    THEN 400
    ELSE IF ~emailRegex(body.email)
    THEN 400
    ELSE IF ~validateLicensePlate(toUpperCase(body.license_plate),
                                  toUpperCase(body.state_province))
    THEN 400
    ELSE IF RequestedStart(body, t) < t - MinutesPerDay
    THEN 400
    ELSE IF RequestedEnd(body, t) <= RequestedStart(body, t)
    THEN 400
    ELSE 0

\* the checks made before the first write: 0 when they all pass
SubmitPrecheck(body, t) ==
    IF \/ ~body.required_fields \/ body.email = ""
       \/ body.license_plate = << >> \/ body.state_province = << >>
    THEN 400
    ELSE IF ~emailRegex(body.email)
    THEN 400
    ELSE IF ~validateLicensePlate(toUpperCase(body.license_plate),
                                  toUpperCase(body.state_province))
    THEN 400
    ELSE IF RequestedStart(body, t) < t - MinutesPerDay
    THEN 400
    ELSE IF RequestedEnd(body, t) <= RequestedStart(body, t)
    THEN 400
    ELSE IF ~ActivePermitType(PermitTypeOf(body))
    THEN 404
    ELSE 0

\* SELECT id FROM tenants WHERE email = ? AND is_active = TRUE (.first():
\* the id of the row, NoId when there is none)
SelectTenant(DB, body) ==
    LET existing == {x \in DB : x.email = toLowerCase(body.email) /\ x.is_active}
    IN IF existing = {} THEN NoId ELSE (CHOOSE x \in existing : TRUE).id

\* the statement that follows the tenant SELECT: UPDATE tenants of the row
\* found (only when the body carries contact fields; contact fields are not
\* part of the modelled rows), else INSERT INTO tenants
WriteTenant(st, body, existingTenant, out) ==
    LET email == toLowerCase(body.email)
        id == generateId(st.tenants)
    IN
    IF existingTenant # NoId
    THEN IF body.contact_fields /\ out = "throws"
         THEN [st EXCEPT !.code = 500]
         ELSE [st EXCEPT !.tenantId = existingTenant]
    ELSE IF out = "throws"
    THEN [st EXCEPT !.code = 500]
    ELSE IF \E x \in st.tenants : x.email = email
    THEN [st EXCEPT !.code = 409]      \* UNIQUE constraint failed: tenants.email
    ELSE [st EXCEPT !.tenantId = id,
                    !.tenants = @ \cup {[id |-> id, email |-> email,
                                         is_active |-> TRUE]}]

\* Step 1: the tenant of the request's e-mail, created when there is none.
\* st.code stays 0 while the handler goes on.
EnsureTenant(st, body, out) ==
    WriteTenant(st, body, SelectTenant(st.tenants, body), out)

\* SELECT id FROM vehicles WHERE license_plate = ? AND state_province = ?
\* AND tenant_id = ?
SelectVehicle(DB, body, tenantId) ==
    LET existing == {x \in DB :
                        /\ x.license_plate = toUpperCase(body.license_plate)
                        /\ x.state_province = toUpperCase(body.state_province)
                        /\ x.tenant_id = tenantId}
    IN IF existing = {} THEN NoId ELSE (CHOOSE x \in existing : TRUE).id

\* (mutant) the vehicle statement on a table without
\* idx_vehicles_license_plate_unique
WriteVehicle_NoIndex(st, body, existingVehicle, out) ==
    LET plate == toUpperCase(body.license_plate)
        state == toUpperCase(body.state_province)
        id == generateId(st.vehicles)
    IN
    IF existingVehicle # NoId
    THEN IF out = "throws"
         THEN [st EXCEPT !.code = 500]
         ELSE [st EXCEPT !.vehicleId = existingVehicle,
                         !.vehicles = {IF x.id = existingVehicle
                                       THEN [x EXCEPT !.color = body.color]
                                       ELSE x : x \in @}]
    ELSE IF out = "throws"
    THEN [st EXCEPT !.code = 500]
    ELSE [st EXCEPT !.vehicleId = id,
                    !.vehicles = @ \cup {[id |-> id, tenant_id |-> st.tenantId,
                                          license_plate |-> plate,
                                          state_province |-> state,
                                          color |-> body.color]}]

\* the statement that follows the vehicle SELECT: UPDATE vehicles SET make,
\* model, year, color, country of the row found (color stands for the five),
\* else INSERT INTO vehicles; idx_vehicles_license_plate_unique is on
\* (license_plate, state_province)
WriteVehicle(st, body, existingVehicle, out) ==
    LET plate == toUpperCase(body.license_plate)
        state == toUpperCase(body.state_province)
        id == generateId(st.vehicles)
    IN
    IF existingVehicle # NoId
    THEN IF out = "throws"
         THEN [st EXCEPT !.code = 500]
         ELSE [st EXCEPT !.vehicleId = existingVehicle,
                         !.vehicles = {IF x.id = existingVehicle
                                       THEN [x EXCEPT !.color = body.color]
                                       ELSE x : x \in @}]
    ELSE IF out = "throws"
    THEN [st EXCEPT !.code = 500]
    ELSE IF \E x \in st.vehicles : /\ x.license_plate = plate
                                   /\ x.state_province = state
    THEN [st EXCEPT !.code = 409]  \* UNIQUE constraint failed: ...license_plate
    ELSE [st EXCEPT !.vehicleId = id,
                    !.vehicles = @ \cup {[id |-> id, tenant_id |-> st.tenantId,
                                          license_plate |-> plate,
                                          state_province |-> state,
                                          color |-> body.color]}]

\* Step 2: the vehicle (plate, state) of that tenant, created when the tenant
\* has none
EnsureVehicle(st, body, out) ==
    WriteVehicle(st, body, SelectVehicle(st.vehicles, body, st.tenantId), out)

\* (mutant) the request row is inserted with the status 'approved'
CreatePermitRequest_Approved(st, body, t, out) ==
    LET id == generateId(st.permit_requests) IN
    IF out = "throws"
    THEN [st EXCEPT !.code = 500]
    ELSE [st EXCEPT
            !.permitRequestId = id,
            !.permit_requests = @ \cup
                {[id |-> id,
                  tenant_id |-> st.tenantId,
                  vehicle_id |-> st.vehicleId,
                  permit_type_id |-> PermitTypeOf(body),
                  requested_start_date |-> DateText(RequestedStart(body, t)),
                  requested_end_date |-> DateText(RequestedEnd(body, t)),
                  status |-> "approved"]}]

\* Step 3: INSERT INTO permit_requests, status 'pending'
CreatePermitRequest(st, body, t, out) ==
    LET id == generateId(st.permit_requests) IN
    IF out = "throws"
    THEN [st EXCEPT !.code = 500]
    ELSE [st EXCEPT
            !.permitRequestId = id,
            !.permit_requests = @ \cup
                {[id |-> id,
                  tenant_id |-> st.tenantId,
                  vehicle_id |-> st.vehicleId,
                  permit_type_id |-> PermitTypeOf(body),
                  requested_start_date |-> DateText(RequestedStart(body, t)),
                  requested_end_date |-> DateText(RequestedEnd(body, t)),
                  status |-> "pending"]}]

\* (mutant) every permit type is approved on submission
IsAutoApproved_Always(permitTypeId) == TRUE

\* permitTypeId === 'guest'
IsAutoApproved(permitTypeId) == permitTypeId = "guest"

\* UPDATE permit_requests SET status = 'approved', ... WHERE id = ?
ApproveRequest(st, out) ==
    IF out = "throws"
    THEN [st EXCEPT !.code = 500]
    ELSE [st EXCEPT !.permit_requests =
                       {IF r.id = st.permitRequestId
                        THEN [r EXCEPT !.status = "approved"]
                        ELSE r : r \in @}]

\* INSERT INTO permits; valid_from and valid_until are bound as
\* toISOString().split('T')[0]
IssuePermit(st, body, t, out) ==
    LET id == generateId(st.permits) IN
    IF out = "throws"
    THEN [st EXCEPT !.code = 500]
    ELSE [st EXCEPT
            !.permits = @ \cup
                {[id |-> id,
                  permit_request_id |-> st.permitRequestId,
                  tenant_id |-> st.tenantId,
                  vehicle_id |-> st.vehicleId,
                  permit_type_id |-> PermitTypeOf(body),
                  valid_from |-> DateText(RequestedStart(body, t)),
                  valid_until |-> DateText(RequestedEnd(body, t)),
                  is_active |-> TRUE]}]

\* Step 4: for a guest permit, UPDATE the request to 'approved', then INSERT
\* the permit
ApproveAndIssue(st, body, t, approveOut, permitOut) ==
    LET approved == ApproveRequest(st, approveOut) IN
    IF ~IsAutoApproved(PermitTypeOf(body))
    THEN st
    ELSE IF approved.code # 0
    THEN approved
    ELSE IssuePermit(approved, body, t, permitOut)

\* (mutant) the four steps inside one transaction: a failing step leaves
\* storage as the handler found it
SubmitSteps_Transactional(body, t, outs) ==
    LET st0 == [tenants |-> tenants, vehicles |-> vehicles,
                permit_requests |-> permit_requests, permits |-> permits,
                code |-> 0, tenantId |-> NoId, vehicleId |-> NoId,
                permitRequestId |-> NoId]
        st1 == EnsureTenant(st0, body, outs.tenant)
        st2 == IF st1.code # 0 THEN st1 ELSE EnsureVehicle(st1, body, outs.vehicle)
        st3 == IF st2.code # 0 THEN st2
               ELSE CreatePermitRequest(st2, body, t, outs.request)
        st4 == IF st3.code # 0 THEN st3
               ELSE ApproveAndIssue(st3, body, t, outs.approve, outs.permit)
    IN
    IF st4.code # 0 THEN [st0 EXCEPT !.code = st4.code] ELSE st4

\* the four steps in order; each statement commits on its own (there is no
\* transaction), so a failing step keeps what the steps before it wrote
SubmitSteps(body, t, outs) ==
    LET st0 == [tenants |-> tenants, vehicles |-> vehicles,
                permit_requests |-> permit_requests, permits |-> permits,
                code |-> 0, tenantId |-> NoId, vehicleId |-> NoId,
                permitRequestId |-> NoId]
        st1 == EnsureTenant(st0, body, outs.tenant)
        st2 == IF st1.code # 0 THEN st1 ELSE EnsureVehicle(st1, body, outs.vehicle)
        st3 == IF st2.code # 0 THEN st2
               ELSE CreatePermitRequest(st2, body, t, outs.request)
    IN
    IF st3.code # 0 THEN st3
    ELSE ApproveAndIssue(st3, body, t, outs.approve, outs.permit)

\* SELECT pr.*, ..., p.valid_from, p.valid_until FROM permit_requests pr ...
\* LEFT JOIN permits p ON pr.id = p.permit_request_id WHERE pr.id = ?
CompleteResult(st) ==
    LET pr == CHOOSE r \in st.permit_requests : r.id = st.permitRequestId
        ps == {p \in st.permits : p.permit_request_id = pr.id}
    IN
    [id |-> pr.id, status |-> pr.status,
     requested_start_date |-> pr.requested_start_date,
     requested_end_date |-> pr.requested_end_date,
     valid_from |-> IF ps = {} THEN NULL
                    ELSE Some((CHOOSE p \in ps : TRUE).valid_from),
     valid_until |-> IF ps = {} THEN NULL
                     ELSE Some((CHOOSE p \in ps : TRUE).valid_until)]

\* The whole handler of one submission.
SubmitPermitRequest(body, outs) ==
    LET pre == SubmitPrecheck(body, now)
        st == SubmitSteps(body, now, outs)
    IN
    /\ Cardinality(permit_requests) < MaxRequests
    /\ IF pre # 0
       THEN /\ resp' = [op |-> "submit", code |-> pre, body |-> body]
            /\ UNCHANGED registry
       ELSE /\ tenants' = st.tenants
            /\ vehicles' = st.vehicles
            /\ permit_requests' = st.permit_requests
            /\ permits' = st.permits
            /\ resp' = IF st.code # 0
                       THEN [op |-> "submit", code |-> st.code, body |-> body]
                       ELSE [op |-> "submit", code |-> 201, body |-> body,
                             permit_request |-> CompleteResult(st),
                             tenant_id |-> st.tenantId,
                             vehicle_id |-> st.vehicleId,
                             permit_request_id |-> st.permitRequestId,
                             auto_approved |->
                                 IsAutoApproved(PermitTypeOf(body))]
    /\ UNCHANGED <<now, shift_reports, tables, reqs>>

(* ======================================================================= *)
(* Enforcement lookup: GET /api/enforcement/license-plates/:plate          *)
(* ======================================================================= *)
\* scan rows logged by lookups in one run
MaxScans == 1
\* UTC days the clock of the lookups runs over
MaxDays == 1

\* isWithinGracePeriod: graceMinutes
GraceMinutes == 5
\* isRepeatOffender = violationCount30Days >= 3
RepeatOffenderCount == 3
\* DATE('now', '-30 days')
HistoryDays == 30

\* now >= permitStart - graceMs && now <= permitEnd + graceMs
isWithinGracePeriod(permitStart, permitEnd, t) ==
    t >= permitStart - GraceMinutes /\ t <= permitEnd + GraceMinutes

\* SQLite DATE('now', '-N days'): the text 'YYYY-MM-DD', as a day number
SqlDate(t, days) == (t \div MinutesPerDay) - days

\* SQLite's txt >= date on TEXT, txt a timestamp ('YYYY-MM-DD HH:MM:SS' or
\* ISO) and date a 'YYYY-MM-DD': the date prefixes decide, and with equal
\* prefixes the longer text is the greater
TimestampAtLeastDate(txt, date) == txt.day >= date

\* SELECT v.*, ... FROM vehicles v JOIN tenants t ON v.tenant_id = t.id
\* WHERE v.license_plate = ? AND v.state_province = ? AND t.is_active = TRUE
VehicleInfo(plate, state) ==
    {v \in vehicles :
        /\ v.license_plate = plate
        /\ v.state_province = state
        /\ \E t \in tenants : t.id = v.tenant_id /\ t.is_active}

\* (mutant) the query without its p.is_active = TRUE condition
ActivePermits_AnyFlag(vehicleId, t) ==
    {p \in permits : /\ p.vehicle_id = vehicleId
                     /\ p.valid_until >= SqlDate(t, 0)}

\* SELECT p.* FROM permits p ... WHERE p.vehicle_id = ? AND p.is_active = TRUE
\* AND p.valid_until >= DATE('now')
ActivePermits(vehicleId, t) ==
    {p \in permits : /\ p.vehicle_id = vehicleId
                     /\ p.is_active
                     /\ p.valid_until >= SqlDate(t, 0)}

\* (mutant) the query without its status != 'voided' condition
RecentViolations_CountsVoided(plate, state, t) ==
    {v \in violations :
        /\ v.license_plate = plate
        /\ v.state_province = state
        /\ TimestampAtLeastDate(v.issued_at, SqlDate(t, HistoryDays))}

\* SELECT * FROM violations WHERE license_plate = ? AND state_province = ?
\* AND issued_at >= DATE('now', '-30 days') AND status != 'voided'
RecentViolations(plate, state, t) ==
    {v \in violations :
        /\ v.license_plate = plate
        /\ v.state_province = state
        /\ TimestampAtLeastDate(v.issued_at, SqlDate(t, HistoryDays))
        /\ v.status # "voided"}

\* (mutant) the scans of the plate are read as warnings
RecentWarnings_CountsScans(plate, state, t) ==
    {w \in warnings :
        /\ w.license_plate = plate
        /\ w.state_province = state
        /\ TimestampAtLeastDate(w.issued_at, SqlDate(t, HistoryDays))}
    \cup {e \in enforcement_activities :
            /\ e.activity_type = "scan"
            /\ e.license_plate = plate
            /\ e.state_province = state}

\* SELECT * FROM warnings WHERE license_plate = ? AND state_province = ?
\* AND issued_at >= DATE('now', '-30 days')
RecentWarnings(plate, state, t) ==
    {w \in warnings :
        /\ w.license_plate = plate
        /\ w.state_province = state
        /\ TimestampAtLeastDate(w.issued_at, SqlDate(t, HistoryDays))}

\* activePermits.results.find(permit => now >= validFrom && now <= validUntil)
ValidPermits(active, t) ==
    {p \in active : t >= ParseDate(p.valid_from) /\ t <= ParseDate(p.valid_until)}

\* activePermits.results.find(permit => isWithinGracePeriod(...))
GracePermits(active, t) ==
    {p \in active :
        isWithinGracePeriod(ParseDate(p.valid_from), ParseDate(p.valid_until), t)}

\* (mutant) a permit past its grace margin decides before the grace check
CurrentStatus_ExpiredFirst(active, t) ==
    IF active = {} THEN "no_permit"
    ELSE IF ValidPermits(active, t) # {} THEN "authorized"
    ELSE IF \E p \in active : t > ParseDate(p.valid_until) + GraceMinutes
    THEN "expired"
    ELSE IF GracePermits(active, t) # {} THEN "grace_period"
    ELSE "expired"

\* (mutant) the grace check made before the validity check
CurrentStatus_GraceFirst(active, t) ==
    IF active = {} THEN "no_permit"
    ELSE IF GracePermits(active, t) # {} THEN "grace_period"
    ELSE IF ValidPermits(active, t) # {} THEN "authorized"
    ELSE "expired"

\* the status resolution of the lookup
CurrentStatus(active, t) ==
    IF active = {} THEN "no_permit"
    ELSE IF ValidPermits(active, t) # {} THEN "authorized"
    ELSE IF GracePermits(active, t) # {} THEN "grace_period"
    ELSE "expired"

\* gracePeriodExpires: set in the grace branch from the first grace permit
\* of the result, which is ordered by valid_until DESC
GracePeriodExpires(active, t) ==
    IF CurrentStatus(active, t) = "grace_period"
    THEN Some(ParseDate(SetMax({p.valid_until : p \in GracePermits(active, t)}))
              + GraceMinutes)
    ELSE Undefined

\* (mutant) a repeat offender is ticketed whatever the status
RecommendedAction_RepeatFirst(currentStatus, isRepeatOffender, warningCount) ==
    IF isRepeatOffender THEN "ticket"
    ELSE IF currentStatus = "authorized" THEN "none"
    ELSE IF currentStatus = "grace_period" THEN "verify_manually"
    ELSE IF warningCount > 0 THEN "ticket"
    ELSE "warning"

\* the recommended action of a registered vehicle
RecommendedAction(currentStatus, isRepeatOffender, warningCount) ==
    IF currentStatus = "authorized" THEN "none"
    ELSE IF currentStatus = "grace_period" THEN "verify_manually"
    ELSE IF isRepeatOffender THEN "ticket"
    ELSE IF warningCount > 0 THEN "ticket"
    ELSE "warning"

\* the scan row a lookup with an officer_id logs
ScanActivity(DB, officerId, plate, state, t) ==
    [rowid |-> NextRowid(DB),
     id |-> generateId(DB),
     officer_id |-> officerId,
     activity_type |-> "scan",
     license_plate |-> plate,
     state_province |-> state,
     result |-> NULL,
     performed_at |-> toISOString(t)]

\* data of the response for a plate with no vehicle row: fixed values
UnregisteredResult(plate, state) ==
    [op |-> "lookup", code |-> 200,
     license_plate |-> plate, state_province |-> state,
     is_registered |-> FALSE,
     active_permits |-> {},
     recent_violations |-> {},
     recent_warnings |-> {},
     is_repeat_offender |-> FALSE,
     violation_count_30_days |-> 0,
     grace_period_active |-> FALSE,
     grace_period_expires |-> Undefined,
     current_status |-> "no_permit",
     recommended_action |-> "ticket"]

\* data of the response for a registered vehicle
RegisteredResult(vehicle, plate, state, t) ==
    LET active == ActivePermits(vehicle.id, t)
        recentViolations == RecentViolations(plate, state, t)
        recentWarnings == RecentWarnings(plate, state, t)
        violationCount30Days == Cardinality(recentViolations)
        isRepeatOffender == violationCount30Days >= RepeatOffenderCount
        currentStatus == CurrentStatus(active, t)
    IN
    [op |-> "lookup", code |-> 200,
     license_plate |-> plate, state_province |-> state,
     is_registered |-> TRUE,
     active_permits |-> {p.id : p \in active},
     recent_violations |-> {v.id : v \in recentViolations},
     recent_warnings |-> {w.id : w \in recentWarnings},
     is_repeat_offender |-> isRepeatOffender,
     violation_count_30_days |-> violationCount30Days,
     grace_period_active |-> currentStatus = "grace_period",
     grace_period_expires |-> GracePeriodExpires(active, t),
     current_status |-> currentStatus,
     recommended_action |->
         RecommendedAction(currentStatus, isRepeatOffender,
                           Cardinality(recentWarnings))]

\* The whole handler of one lookup.  param is the :plate path parameter,
\* query the state query parameter (absent: 'CA'), officerId the optional
\* officer_id, scanOut what the INSERT of the scan row does.
Lookup(param, query, officerId, scanOut) ==
    LET plate == toUpperCase(param)
        state == IF query = Undefined THEN StateCA ELSE toUpperCase(query[1])
        found == VehicleInfo(plate, state)
        scanThrows == \/ scanOut = "throws"
                      \/ officerId[1] \notin OfficerIds     \* FOREIGN KEY
    IN
    /\ officerId = Undefined \/ Cardinality(enforcement_activities) < MaxScans
    /\ IF ~validateLicensePlate(plate, state)
       THEN /\ resp' = [op |-> "lookup", code |-> 400]
            /\ UNCHANGED enforcement_activities
       ELSE IF officerId # Undefined /\ scanThrows
       THEN /\ resp' = [op |-> "lookup", code |-> 500]
            /\ UNCHANGED enforcement_activities
       ELSE /\ enforcement_activities' =
                 IF officerId = Undefined THEN enforcement_activities
                 ELSE enforcement_activities \cup
                          {ScanActivity(enforcement_activities, officerId[1],
                                        plate, state, now)}
            /\ resp' = IF found = {}
                       THEN UnregisteredResult(plate, state)
                       ELSE RegisteredResult(CHOOSE v \in found : TRUE,
                                             plate, state, now)
    /\ UNCHANGED <<now, shift_reports,
                   violations, warnings, offline_actions, reqs, registry>>

(* ------------------------------------- specification: permit submissions *)
PlateUnknown == <<"N", "Y", "1">>

PermitBody(email, plate, type, start, end) ==
    [required_fields |-> TRUE,
     email |-> email,
     license_plate |-> plate,
     state_province |-> StateCA,
     permit_type_id |-> type,
     requested_start_date |-> start,
     requested_end_date |-> end,
     contact_fields |-> FALSE,
     color |-> "red"]

\* request bodies, with requested instants around the clock's first reading t
PermitBodies(t) ==
    LET day1 == ParseDate(DateText(t) + 1)
        day2 == ParseDate(DateText(t) + 2)
        guest == PermitBody("a@x.io", PlateABC123, Undefined, Undefined, Undefined)
    IN
    {guest,
     PermitBody("a@x.io", PlateLower, Some("guest"), Some(day1), Some(day2)),
     PermitBody("a@x.io", PlateABC123, Some("guest"), Some(t + 10), Some(t + 40)),
     PermitBody("a@x.io", PlateABC123, Some("temporary"), Some(day1), Some(day2)),
     PermitBody("A@X.IO", PlateABC123, Some("resident"), Undefined, Undefined),
     PermitBody("b@x.io", PlateABC123, Undefined, Undefined, Undefined),
     [guest EXCEPT !.email = "A@X.IO", !.contact_fields = TRUE],
     [guest EXCEPT !.required_fields = FALSE],
     [guest EXCEPT !.email = "nomail"],
     [guest EXCEPT !.license_plate = PlateBad],
     [guest EXCEPT !.permit_type_id = Some("vip")],
     PermitBody("a@x.io", PlateABC123, Undefined, Some(day2), Some(day1)),
     PermitBody("a@x.io", PlateABC123, Undefined,
                Some(t - 2 * MinutesPerDay), Undefined)}

SubmitOk ==
    [tenant |-> "ok", vehicle |-> "ok", request |-> "ok", approve |-> "ok",
     permit |-> "ok"]

\* the outcomes of the write statements of one submission
SubmitFaults ==
    {outs \in [DOMAIN SubmitOk -> StorageOutcomes] :
        Cardinality({k \in DOMAIN SubmitOk : outs[k] = "throws"}) <= MaxFaults}

DoSubmitPermitRequest ==
    \E body \in PermitBodies(InitialNow), outs \in SubmitFaults :
        SubmitPermitRequest(body, outs)

NextPermits ==
    \/ Tick(MaxTicketTicks)
    \/ DoSubmitPermitRequest

SpecPermits == Init /\ [][NextPermits]_vars

(* ------------------------------------------------ specification: lookups *)
\* a violation row as the live ticket endpoint wrote it at instant t
HistoricViolation(n, plate, t, status) ==
    [rowid |-> n,
     id |-> Uuid(n),
     license_plate |-> plate,
     state_province |-> StateCA,
     issued_by |-> "O1",
     status |-> status,
     issued_at |-> CurrentTimestamp(t),
     voided_at |-> IF status = "voided" THEN Some(CurrentTimestamp(t)) ELSE NULL,
     voided_reason |-> IF status = "voided" THEN Some("slip") ELSE NULL]

\* a warning row as the live warning endpoint wrote it at instant t
HistoricWarning(n, plate, t) ==
    [rowid |-> n,
     id |-> Uuid(n),
     license_plate |-> plate,
     state_province |-> StateCA,
     issued_by |-> "O1",
     issued_at |-> CurrentTimestamp(t)]

DaysBefore(t, days) == t - days * MinutesPerDay

\* the tickets a plate has collected before the run starts at t
ViolationHistories(plate, t) ==
    LET v1 == HistoricViolation(1, plate, DaysBefore(t, 1), "issued")
        v2 == HistoricViolation(2, plate, DaysBefore(t, 2), "issued")
        v3 == HistoricViolation(3, plate, DaysBefore(t, 3), "issued")
        voided == HistoricViolation(3, plate, DaysBefore(t, 3), "voided")
        \* 10:00 of the day 30 days back: more than 30 days before t = 23:00
        old == HistoricViolation(3, plate,
                   ParseDate(DateText(t) - HistoryDays) + 10 * 60, "issued")
    IN {{}, {v1, v2}, {v1, v2, v3}, {v1, v2, voided}, {v1, v2, old}}

WarningHistories(plate, t) ==
    {{}, {HistoricWarning(1, plate, DaysBefore(t, 1))}}

InitLookup ==
    /\ now = InitialNow
    /\ \/ /\ violations \in ViolationHistories(PlateABC123, InitialNow)
          /\ warnings \in WarningHistories(PlateABC123, InitialNow)
       \/ /\ violations \in ViolationHistories(PlateUnknown, InitialNow)
          /\ violations # {}
          /\ warnings = {}
    /\ enforcement_activities = {}
    /\ offline_actions = {}
    /\ resp = [op |-> "none", code |-> 0]
    /\ reqs = [p \in Procs |-> [pc |-> "idle"]]
    /\ tenants = {}
    /\ vehicles = {}
    /\ permit_requests = {}
    /\ permits = {}
    /\ shift_reports = {}

\* the instants the lookups are made at: around the midnights of the run
LookupInstants ==
    {ParseDate(d) + o : d \in 1..MaxDays,
                        o \in {-(GraceMinutes + 1), -GraceMinutes, 0,
                               GraceMinutes, GraceMinutes + 1}}

\* the clock moves on to a later instant
Advance ==
    /\ \E t \in LookupInstants : t > now /\ now' = t
    /\ UNCHANGED <<tables, resp, reqs, registry, shift_reports>>

\* the submissions that feed the lookups
LookupPermitBodies(t) ==
    LET day1 == ParseDate(DateText(t) + 1)
        day2 == ParseDate(DateText(t) + 2)
    IN
    {PermitBody("a@x.io", PlateABC123, Undefined, Undefined, Undefined),
     PermitBody("a@x.io", PlateABC123, Some("guest"), Some(day1), Some(day2)),
     PermitBody("a@x.io", PlateABC123, Some("guest"), Some(t + 10), Some(t + 40)),
     PermitBody("a@x.io", PlateABC123, Some("temporary"), Some(day1), Some(day2))}

DoSubmitForLookup ==
    \E body \in LookupPermitBodies(InitialNow) :
        SubmitPermitRequest(body, SubmitOk)

DoLookup ==
    \/ \E param \in {PlateABC123, PlateLower, PlateUnknown, PlateBad} :
          Lookup(param, Undefined, Undefined, "ok")
    \/ \E query \in {Some(StateCA), Some(StateNY)},
          officerId \in {Some("O1"), Some(UnknownOfficer)},
          scanOut \in StorageOutcomes :
          Lookup(PlateABC123, query, officerId, scanOut)

NextLookup ==
    \/ Advance
    \/ DoSubmitForLookup
    \/ DoLookup

SpecLookup == InitLookup /\ [][NextLookup]_vars

(* ------------------------------------------------------- lookups: claims *)
\* a step that is a lookup answered with a result
LookupResponded ==
    /\ now' = now
    /\ resp'.op = "lookup" /\ resp'.code = 200
    /\ UNCHANGED registry

\* every permit ever issued for the vehicle (plate, state)
PermitsOfPlate(plate, state) ==
    {p \in permits :
        \E v \in vehicles : /\ v.id = p.vehicle_id
                            /\ v.license_plate = plate
                            /\ v.state_province = state}

\* valid_from <= t <= valid_until
Covers(p, t) == ParseDate(p.valid_from) <= t /\ t <= ParseDate(p.valid_until)

\* t is in [valid_from - 5 min, valid_until + 5 min]
WithinGrace(p, t) ==
    /\ ParseDate(p.valid_from) - GraceMinutes <= t
    /\ t <= ParseDate(p.valid_until) + GraceMinutes

\* t is after valid_until + 5 min
PastGrace(p, t) == t > ParseDate(p.valid_until) + GraceMinutes

\* the response in resp is the answer the present state gives
FreshLookup ==
    /\ resp.op = "lookup" /\ resp.code = 200 /\ resp.is_registered
    /\ \E v \in VehicleInfo(resp.license_plate, resp.state_province) :
          resp = RegisteredResult(v, resp.license_plate, resp.state_province,
                                  now)

\* C11: a lookup of a vehicle that is within the grace margin of one permit,
\* past the grace margin of another and covered by none answers
\* grace_period (never expired).
C11_GraceBeatsExpired ==
    [][LookupResponded =>
        LET ps == PermitsOfPlate(resp'.license_plate, resp'.state_province) IN
        (/\ \E p \in ps : WithinGrace(p, now)
         /\ \E q \in ps : PastGrace(q, now)
         /\ \A p \in ps : ~Covers(p, now))
        => resp'.current_status = "grace_period"
      ]_vars

\* a lookup answered grace_period for a vehicle with a permit in grace and
\* another permit past its grace margin
C11_Witness ==
    /\ FreshLookup
    /\ resp.current_status = "grace_period"
    /\ LET ps == PermitsOfPlate(resp.license_plate, resp.state_province) IN
       /\ \E p \in ps : WithinGrace(p, now)
       /\ \E q \in ps : PastGrace(q, now)
       /\ \A p \in ps : ~Covers(p, now)

\* C12: a lookup of a vehicle with at least one active permit whose window
\* contains now answers authorized, whatever its other permits are.
C12_ValidPermitAuthorizes ==
    [][LookupResponded =>
        LET ps == PermitsOfPlate(resp'.license_plate, resp'.state_province) IN
        (\E p \in ps : p.is_active /\ Covers(p, now))
        => resp'.current_status = "authorized"
      ]_vars

\* a lookup answered authorized while another permit of the vehicle is in
\* its grace margin and does not cover now
C12_Witness ==
    /\ FreshLookup
    /\ resp.current_status = "authorized"
    /\ LET ps == PermitsOfPlate(resp.license_plate, resp.state_province) IN
       /\ \E p \in ps : p.is_active /\ Covers(p, now)
       /\ \E q \in ps : WithinGrace(q, now) /\ ~Covers(q, now)

\* C13: for a vehicle whose only permit is valid from F until T, a lookup
\* answers grace_period at every instant of (T, T + 5 min] and of
\* [F - 5 min, F), and expired at every instant after T + 5 min.
C13_GraceBoundary ==
    [][LookupResponded =>
        LET ps == PermitsOfPlate(resp'.license_plate, resp'.state_province) IN
        \A p \in ps :
            ps = {p} =>
                LET F == ParseDate(p.valid_from)
                    T == ParseDate(p.valid_until)
                IN
                /\ (now > T /\ now <= T + GraceMinutes)
                       => resp'.current_status = "grace_period"
                /\ (now >= F - GraceMinutes /\ now < F)
                       => resp'.current_status = "grace_period"
                /\ now > T + GraceMinutes
                       => resp'.current_status = "expired"
      ]_vars

\* C14: a lookup of a vehicle that has permits, none of them covering now or
\* in grace, answers expired; a lookup answers no_permit only for a vehicle
\* no permit was ever issued for.
C14_ExpiredVersusNoPermit ==
    [][LookupResponded =>
        LET ps == PermitsOfPlate(resp'.license_plate, resp'.state_province) IN
        /\ (ps # {} /\ \A p \in ps : ~Covers(p, now) /\ ~WithinGrace(p, now))
               => resp'.current_status = "expired"
        /\ resp'.current_status = "no_permit" => ps = {}
      ]_vars

\* the action policy as the claims state it
PolicyAction(status, violationCount30d, warningCount30d) ==
    IF status = "authorized" THEN "none"
    ELSE IF status = "grace_period" THEN "verify_manually"
    ELSE IF violationCount30d >= RepeatOffenderCount \/ warningCount30d > 0
    THEN "ticket"
    ELSE "warning"

\* the non-voided violations of the plate issued in the 30 days before t
Trailing30dViolations(plate, state, t) ==
    {v \in violations :
        /\ v.license_plate = plate /\ v.state_province = state
        /\ v.status # "voided"
        /\ InstantOf(v.issued_at) >= t - HistoryDays * MinutesPerDay}

\* the warnings of the plate issued in the 30 days before t
Trailing30dWarnings(plate, state, t) ==
    {w \in warnings :
        /\ w.license_plate = plate /\ w.state_province = state
        /\ InstantOf(w.issued_at) >= t - HistoryDays * MinutesPerDay}

\* C15: the recommended action of every lookup result is the one the policy
\* gives for its status and the plate's 30-day violation and warning counts.
C15_ActionIsPolicy ==
    [][LookupResponded =>
        resp'.recommended_action =
            PolicyAction(resp'.current_status,
                Cardinality(Trailing30dViolations(resp'.license_plate,
                                                  resp'.state_province, now)),
                Cardinality(Trailing30dWarnings(resp'.license_plate,
                                                resp'.state_province, now)))
      ]_vars

\* C16: a lookup answered no_permit reports is_repeat_offender and ticket
\* when the plate has 3 or more non-voided violations in the last 30 days,
\* and warning when it has exactly 2 and no warning in the last 30 days.
C16_RepeatOffender ==
    [][(LookupResponded /\ resp'.current_status = "no_permit") =>
        LET vc == Cardinality(Trailing30dViolations(resp'.license_plate,
                                                    resp'.state_province, now))
            wc == Cardinality(Trailing30dWarnings(resp'.license_plate,
                                                  resp'.state_province, now))
        IN
        /\ vc >= RepeatOffenderCount
               => resp'.is_repeat_offender /\ resp'.recommended_action = "ticket"
        /\ (vc = RepeatOffenderCount - 1 /\ wc = 0)
               => resp'.recommended_action = "warning"
      ]_vars

\* C17: a lookup answered grace_period recommends verify_manually.
C17_GraceNeverTickets ==
    [][(LookupResponded /\ resp'.current_status = "grace_period")
          => resp'.recommended_action = "verify_manually"
      ]_vars

\* a lookup answered grace_period for a repeat offender with a recent warning
C17_Witness ==
    /\ FreshLookup
    /\ resp.current_status = "grace_period"
    /\ resp.is_repeat_offender
    /\ resp.recent_warnings # {}
    /\ resp.recommended_action = "verify_manually"

(* --------------------------------------------- permit lifecycle: claims *)
\* a step that is a submission answered 201
SubmitResponded ==
    /\ now' = now
    /\ resp'.op = "submit" /\ resp'.code = 201

\* C18: a successful submission with the guest permit type returns
\* auto_approved = true, leaves its request approved and creates exactly one
\* permit, whose window [valid_from, valid_until] is the requested window.
C18_AutoApproval ==
    [][(SubmitResponded /\ PermitTypeOf(resp'.body) = "guest") =>
        LET id == resp'.permit_request_id
            ps == {p \in permits' : p.permit_request_id = id}
        IN
        /\ resp'.auto_approved
        /\ \E r \in permit_requests' : r.id = id /\ r.status = "approved"
        /\ Cardinality(ps) = 1
        /\ Cardinality(permits') = Cardinality(permits) + 1
        /\ \A p \in ps :
              /\ ParseDate(p.valid_from) = RequestedStart(resp'.body, now)
              /\ ParseDate(p.valid_until) = RequestedEnd(resp'.body, now)
      ]_vars

\* C19: a successful submission with a permit type other than guest returns
\* auto_approved = false, leaves its request pending and creates no permit.
C19_OthersStayPending ==
    [][(SubmitResponded /\ PermitTypeOf(resp'.body) # "guest") =>
        LET id == resp'.permit_request_id IN
        /\ ~resp'.auto_approved
        /\ \E r \in permit_requests' : r.id = id /\ r.status = "pending"
        /\ permits' = permits
        /\ \A p \in permits' : p.permit_request_id # id
      ]_vars

\* a submission with the temporary permit type was answered 201 and its
\* request is stored pending
C19_Witness ==
    /\ resp.op = "submit" /\ resp.code = 201
    /\ PermitTypeOf(resp.body) = "temporary"
    /\ \E r \in permit_requests :
          /\ r.id = resp.permit_request_id
          /\ r.permit_type_id = "temporary"
          /\ r.status = "pending"

\* C20: every approved permit request is referenced by exactly one permit
\* row, and no permit request is referenced by two permit rows.
C20_OnePermitPerApproval ==
    \A r \in permit_requests :
        LET ps == {p \in permits : p.permit_request_id = r.id} IN
        /\ r.status = "approved" => Cardinality(ps) = 1
        /\ Cardinality(ps) <= 1

(* ======================================================================= *)
(* Registry endpoints: tenants, vehicles and permit requests on their own  *)
(* ======================================================================= *)
\* POST /api/tenants
CreateTenant(body, insertOut) ==
    LET tenant == [id |-> generateId(tenants),
                   email |-> toLowerCase(body.email),
                   is_active |-> TRUE]
    IN
    /\ IF ~body.required_fields \/ body.email = ""
       THEN /\ resp' = [op |-> "tenant", code |-> 400, body |-> body]
            /\ UNCHANGED tenants
       ELSE IF ~emailRegex(body.email)
       THEN /\ resp' = [op |-> "tenant", code |-> 400, body |-> body]
            /\ UNCHANGED tenants
       ELSE IF insertOut = "throws"
       THEN /\ resp' = [op |-> "tenant", code |-> 500, body |-> body]
            /\ UNCHANGED tenants
       ELSE IF \E x \in tenants : x.email = tenant.email
       THEN \* UNIQUE constraint failed: tenants.email
            /\ resp' = [op |-> "tenant", code |-> 409, body |-> body]
            /\ UNCHANGED tenants
       ELSE /\ resp' = [op |-> "tenant", code |-> 201, body |-> body,
                        data |-> tenant]
            /\ tenants' = tenants \cup {tenant}
    /\ UNCHANGED <<now, shift_reports,
                   tables, reqs, vehicles, permit_requests, permits>>

\* the checks of POST /api/tenants/:tenantId/vehicles made before its INSERT:
\* 0 when they all pass
VehiclePrecheck(DB, tenantId, body) ==
    IF \/ body.license_plate = << >> \/ ~body.vehicle_fields
       \/ body.state_province = << >>
    THEN 400
    ELSE IF ~validateLicensePlate(toUpperCase(body.license_plate),
                                  body.state_province)
    THEN 400
    ELSE IF ~\E t \in DB : t.id = tenantId /\ t.is_active
    THEN 404
    ELSE 0

\* the row POST /api/tenants/:tenantId/vehicles inserts
NewVehicle(DB, tenantId, body) ==
    [id |-> generateId(DB),
     tenant_id |-> tenantId,
     license_plate |-> toUpperCase(body.license_plate),
     state_province |-> toUpperCase(body.state_province),
     color |-> body.color]

\* INSERT INTO vehicles under idx_vehicles_license_plate_unique: the response
\* code of the handler
VehicleInsertCode(DB, vehicle, insertOut) ==
    IF insertOut = "throws" THEN 500
    ELSE IF \E x \in DB : /\ x.license_plate = vehicle.license_plate
                          /\ x.state_province = vehicle.state_province
    THEN 409    \* UNIQUE constraint failed: vehicles.license_plate, ...
    ELSE 201

\* POST /api/tenants/:tenantId/vehicles
CreateVehicle(tenantId, body, insertOut) ==
    LET pre == VehiclePrecheck(tenants, tenantId, body)
        vehicle == NewVehicle(vehicles, tenantId, body)
        code == IF pre # 0 THEN pre
                ELSE VehicleInsertCode(vehicles, vehicle, insertOut)
    IN
    /\ resp' = [op |-> "vehicle", code |-> code, body |-> body,
                tenantId |-> tenantId]
    /\ vehicles' = IF code = 201 THEN vehicles \cup {vehicle} ELSE vehicles
    /\ UNCHANGED <<now, shift_reports,
                   tables, reqs, tenants, permit_requests, permits>>

\* the checks of POST /api/permit-requests made before its INSERT: 0 when they
\* all pass
PermitRequestPrecheck(body, t) ==
    IF \/ body.tenant_id = Undefined \/ body.vehicle_id = Undefined
       \/ body.permit_type_id = Undefined
       \/ body.requested_start_date = Undefined
       \/ body.requested_end_date = Undefined
    THEN 400
    ELSE IF body.requested_start_date[1] < t
    THEN 400
    ELSE IF body.requested_end_date[1] <= body.requested_start_date[1]
    THEN 400
    ELSE IF ~\E x \in tenants, v \in vehicles :
                /\ x.id = body.tenant_id[1] /\ v.id = body.vehicle_id[1]
                /\ v.tenant_id = x.id /\ x.is_active
    THEN 404
    ELSE IF ~ActivePermitType(body.permit_type_id[1])
    THEN 404
    ELSE 0

\* the row POST /api/permit-requests inserts
NewPermitRequest(DB, body) ==
    [id |-> generateId(DB),
     tenant_id |-> body.tenant_id[1],
     vehicle_id |-> body.vehicle_id[1],
     permit_type_id |-> body.permit_type_id[1],
     requested_start_date |-> DateText(body.requested_start_date[1]),
     requested_end_date |-> DateText(body.requested_end_date[1]),
     status |-> "pending"]

\* POST /api/permit-requests
PostPermitRequest(body, insertOut) ==
    LET pre == PermitRequestPrecheck(body, now)
        permitRequest == NewPermitRequest(permit_requests, body)
    IN
    /\ Cardinality(permit_requests) < MaxRequests
    /\ IF pre # 0
       THEN /\ resp' = [op |-> "permit-request", code |-> pre, body |-> body]
            /\ UNCHANGED permit_requests
       ELSE IF insertOut = "throws"
       THEN /\ resp' = [op |-> "permit-request", code |-> 500, body |-> body]
            /\ UNCHANGED permit_requests
       ELSE /\ resp' = [op |-> "permit-request", code |-> 201, body |-> body,
                        data |-> permitRequest]
            /\ permit_requests' = permit_requests \cup {permitRequest}
    /\ UNCHANGED <<now, shift_reports,
                   tables, reqs, tenants, vehicles, permits>>

(* ------------------------------------ specification: the permit lifecycle *)
TenantBody(email, complete) == [required_fields |-> complete, email |-> email]

TenantBodies ==
    {TenantBody("a@x.io", TRUE), TenantBody("A@X.IO", TRUE),
     TenantBody("nomail", TRUE), TenantBody("b@x.io", FALSE)}

VehicleBody(plate, state, color) ==
    [license_plate |-> plate, state_province |-> state, vehicle_fields |-> TRUE,
     color |-> color]

VehicleBodies ==
    {VehicleBody(PlateABC123, StateCA, "red"),
     VehicleBody(PlateLower, StateCA, "blue"),
     VehicleBody(PlateBad, StateCA, "red"),
     [VehicleBody(PlateABC123, StateCA, "red") EXCEPT !.vehicle_fields = FALSE]}

RequestBody(tenant, vehicle, type, start, end) ==
    [tenant_id |-> tenant, vehicle_id |-> vehicle, permit_type_id |-> type,
     requested_start_date |-> start, requested_end_date |-> end]

\* bodies for POST /api/permit-requests, with requested instants around the
\* clock's first reading t
RequestBodies(t) ==
    LET day1 == ParseDate(DateText(t) + 1)
        day2 == ParseDate(DateText(t) + 2)
        tenant == {Some(x.id) : x \in tenants}
        vehicle == {Some(v.id) : v \in vehicles}
    IN
    {RequestBody(x, v, Some("temporary"), Some(day1), Some(day2)) :
        x \in tenant \cup {Some(Uuid(0))}, v \in vehicle \cup {Some(Uuid(0))}}
    \cup {RequestBody(x, v, type, start, end) :
            x \in tenant, v \in vehicle, type \in {Some("vip")},
            start \in {Some(day1)}, end \in {Some(day2)}}
    \cup {RequestBody(x, v, Some("resident"), start, end) :
            x \in tenant, v \in vehicle,
            start \in {Some(t - TickStep), Some(day2)},
            end \in {Some(day1), Some(day2), Undefined}}

\* bodies for POST /api/submit-permit-request whose windows lie on the
\* boundaries of the date validation
LifecycleBodies(t) ==
    LET day1 == ParseDate(DateText(t) + 1)
        day2 == ParseDate(DateText(t) + 2)
    IN
    {PermitBody("a@x.io", PlateABC123, Undefined, Undefined, Undefined),
     PermitBody("a@x.io", PlateABC123, Undefined, Some(t - MinutesPerDay), Undefined),
     PermitBody("a@x.io", PlateABC123, Undefined, Some(t - TickStep), Some(t + TickStep)),
     PermitBody("a@x.io", PlateABC123, Undefined, Some(day1), Some(day1)),
     PermitBody("a@x.io", PlateABC123, Undefined, Some(day2), Some(day1)),
     PermitBody("a@x.io", PlateABC123, Some("temporary"), Some(day1), Some(day2)),
     PermitBody("b@x.io", PlateABC123, Some("vip"), Undefined, Undefined),
     PermitBody("b@x.io", PlateABC123, Undefined, Some(t - 2 * MinutesPerDay), Undefined)}

DoSubmitLifecycle ==
    \E body \in LifecycleBodies(InitialNow), outs \in SubmitFaults :
        SubmitPermitRequest(body, outs)

DoCreateTenant ==
    \E body \in TenantBodies, insertOut \in StorageOutcomes :
        CreateTenant(body, insertOut)

DoCreateVehicle ==
    \E tenantId \in {x.id : x \in tenants} \cup {Uuid(0)},
       body \in VehicleBodies, insertOut \in StorageOutcomes :
        CreateVehicle(tenantId, body, insertOut)

DoPostPermitRequest ==
    \E body \in RequestBodies(InitialNow), insertOut \in StorageOutcomes :
        PostPermitRequest(body, insertOut)

NextLifecycle ==
    \/ Tick(MaxTicketTicks)
    \/ DoSubmitLifecycle
    \/ DoCreateTenant
    \/ DoCreateVehicle
    \/ DoPostPermitRequest

SpecLifecycle == Init /\ [][NextLifecycle]_vars

(* -------------------------------------- permit lifecycle: validation claims *)
\* a step that answers a permit request submission, on either endpoint
SubmissionAnswered ==
    /\ now' = now
    /\ resp'.op \in {"submit", "permit-request"}

\* the start of the window a submission asks for, when it has one
HasStart(r) == r.op = "submit" \/ r.body.requested_start_date # Undefined
WindowStart(r, t) ==
    IF r.op = "submit" THEN RequestedStart(r.body, t)
    ELSE r.body.requested_start_date[1]

\* the end of the window a submission asks for, when it has one
HasEnd(r) == r.op = "submit" \/ r.body.requested_end_date # Undefined
WindowEnd(r, t) ==
    IF r.op = "submit" THEN RequestedEnd(r.body, t)
    ELSE r.body.requested_end_date[1]

\* C21: a permit request submission whose requested end is not after its
\* requested start is answered 400 and creates no permit request and no
\* permit.
C21_WindowOrderRejected ==
    [][(/\ SubmissionAnswered
        /\ HasStart(resp') /\ HasEnd(resp')
        /\ WindowEnd(resp', now) <= WindowStart(resp', now))
       => /\ resp'.code = 400
          /\ permit_requests' = permit_requests
          /\ permits' = permits
      ]_vars

\* a submission that is in order but for its window, which ends at the
\* instant it starts, was answered 400
C21_Witness ==
    /\ resp.op = "submit" /\ resp.code = 400
    /\ resp.body.required_fields /\ emailRegex(resp.body.email)
    /\ validateLicensePlate(toUpperCase(resp.body.license_plate),
                            toUpperCase(resp.body.state_province))
    /\ RequestedStart(resp.body, now) >= now
    /\ ActivePermitType(PermitTypeOf(resp.body))
    /\ RequestedEnd(resp.body, now) = RequestedStart(resp.body, now)

\* the checks of a submission that do not look at its start against the
\* clock all pass: the fields are there and well formed, the window is ordered
InOrderButStart(r, t) ==
    IF r.op = "submit"
    THEN /\ r.body.required_fields /\ emailRegex(r.body.email)
         /\ validateLicensePlate(toUpperCase(r.body.license_plate),
                                 toUpperCase(r.body.state_province))
         /\ RequestedEnd(r.body, t) > RequestedStart(r.body, t)
    ELSE /\ r.body.tenant_id # Undefined /\ r.body.vehicle_id # Undefined
         /\ r.body.permit_type_id # Undefined
         /\ r.body.requested_end_date # Undefined
         /\ r.body.requested_end_date[1] > r.body.requested_start_date[1]

\* C22: a permit request submission whose start is more than 24 hours before
\* the current instant is answered 400, and one whose start lies within the
\* last 24 hours and that is otherwise in order is not answered 400.
C22_Backdating ==
    [][(SubmissionAnswered /\ HasStart(resp')) =>
        LET start == WindowStart(resp', now) IN
        /\ start < now - MinutesPerDay => resp'.code = 400
        /\ (/\ start >= now - MinutesPerDay /\ start <= now
            /\ InOrderButStart(resp', now))
           => resp'.code # 400
      ]_vars

\* the permit type a submission names, when it names one
HasType(r) == r.op = "submit" \/ r.body.permit_type_id # Undefined
SubmissionType(r) ==
    IF r.op = "submit" THEN PermitTypeOf(r.body) ELSE r.body.permit_type_id[1]

\* C23: a permit request submission that names a permit type that is not an
\* active row of permit_types is answered 404 (400 when its validation fails
\* first), and a submission answered 400 or 404 changes no row of tenants,
\* vehicles, permit_requests or permits.
C23_UnknownTypeNotFound ==
    [][SubmissionAnswered =>
        /\ (HasType(resp') /\ ~ActivePermitType(SubmissionType(resp')))
           => /\ resp'.code \in {400, 404}
              /\ (/\ HasStart(resp') /\ WindowStart(resp', now) >= now
                  /\ InOrderButStart(resp', now))
                 => resp'.code = 404
        /\ resp'.code \in {400, 404} => UNCHANGED registry
      ]_vars

\* a submission in order but for its permit type was answered 404, and there
\* is no tenant with its e-mail address
C23_Witness ==
    /\ resp.op = "submit" /\ resp.code = 404
    /\ ~ActivePermitType(PermitTypeOf(resp.body))
    /\ InOrderButStart(resp, now)
    /\ \A x \in tenants : x.email # toLowerCase(resp.body.email)

(* ---------------------------------------- permit lifecycle: state claims *)
\* C24: every row of permits has valid_from <= valid_until.
C24_WindowOrdered ==
    \A p \in permits : p.valid_from <= p.valid_until

\* a permit was issued for a window that starts and ends on the same day,
\* asked for by a submission that started before the current instant
C24_Witness ==
    /\ resp.op = "submit" /\ resp.code = 201
    /\ RequestedStart(resp.body, now) < now
    /\ \E p \in permits :
          /\ p.permit_request_id = resp.permit_request_id
          /\ p.valid_from = p.valid_until
          /\ p.valid_from = DateText(RequestedStart(resp.body, now))

(* --------------------- the registry endpoints, one statement at a time *)
\* A request p runs a handler with the other requests interleaved at its
\* awaits.  For POST /api/submit-permit-request: the checks, the tenant
\* SELECT, the tenant UPDATE or INSERT, the vehicle SELECT, the vehicle UPDATE
\* or INSERT, the INSERT INTO permit_requests, the UPDATE to 'approved', the
\* INSERT INTO permits.  For POST /api/tenants/:tenantId/vehicles: the checks,
\* then the INSERT.  reqs[p].t is the clock reading the handler took its
\* default window from, reqs[p].saw the ids of the vehicles that existed at
\* p's vehicle SELECT.
StepBodies ==
    {PermitBody("a@x.io", PlateABC123, Undefined, Undefined, Undefined),
     PermitBody("b@x.io", PlateLower, Some("temporary"), Undefined, Undefined)}

StepVehicleBodies ==
    {VehicleBody(PlateABC123, StateCA, "green"),
     VehicleBody(PlateBad, StateCA, "green")}

\* the handler's view of storage and of its own variables
StOf(p) ==
    [tenants |-> tenants, vehicles |-> vehicles,
     permit_requests |-> permit_requests, permits |-> permits,
     code |-> 0, tenantId |-> reqs[p].tenantId, vehicleId |-> reqs[p].vehicleId,
     permitRequestId |-> reqs[p].permitRequestId]

\* a statement of p has run and left st: its writes are in storage, and p goes
\* on to pc unless the statement threw
Commit(p, st, pc) ==
    /\ tenants' = st.tenants
    /\ vehicles' = st.vehicles
    /\ permit_requests' = st.permit_requests
    /\ permits' = st.permits
    /\ reqs' = [reqs EXCEPT ![p] =
                  IF st.code # 0 \/ pc = "done"
                  THEN \* the handler returns: its variables are gone, but
                       \* for what the response tells
                       [@ EXCEPT !.pc = "done",
                                 !.code = IF st.code # 0 THEN st.code ELSE 201,
                                 !.tenantId = NoId,
                                 !.existing = NoId,
                                 !.vehicleId = st.vehicleId,
                                 !.permitRequestId = st.permitRequestId]
                  ELSE [@ EXCEPT !.pc = pc,
                                 !.tenantId = st.tenantId,
                                 !.vehicleId = st.vehicleId,
                                 !.permitRequestId = st.permitRequestId]]
    /\ UNCHANGED <<now, shift_reports, tables, resp>>

SubmitBegin(p, body) ==
    LET pre == SubmitPrecheck(body, now) IN
    /\ reqs[p].pc \in {"idle", "done"}
    /\ Cardinality(permit_requests) < MaxRequests
    /\ reqs' = [reqs EXCEPT ![p] =
           [pc |-> IF pre # 0 THEN "done" ELSE "tenant_select",
            code |-> pre, op |-> "submit", body |-> body, t |-> now,
            tenantId |-> NoId, vehicleId |-> NoId, permitRequestId |-> NoId,
            existing |-> NoId, saw |-> {}]]
    /\ UNCHANGED <<now, shift_reports, tables, resp, registry>>

SubmitSelectTenant(p) ==
    /\ reqs[p].pc = "tenant_select"
    /\ reqs' = [reqs EXCEPT ![p].pc = "tenant_write",
                            ![p].existing = SelectTenant(tenants, reqs[p].body)]
    /\ UNCHANGED <<now, shift_reports, tables, resp, registry>>

SubmitWriteTenant(p, out) ==
    /\ reqs[p].pc = "tenant_write"
    /\ Commit(p, WriteTenant(StOf(p), reqs[p].body, reqs[p].existing, out),
              "vehicle_select")

SubmitSelectVehicle(p) ==
    /\ reqs[p].pc = "vehicle_select"
    /\ reqs' = [reqs EXCEPT ![p].pc = "vehicle_write",
                            ![p].existing = SelectVehicle(vehicles, reqs[p].body,
                                                         reqs[p].tenantId),
                            ![p].saw = {v.id : v \in vehicles}]
    /\ UNCHANGED <<now, shift_reports, tables, resp, registry>>

SubmitWriteVehicle(p, out) ==
    /\ reqs[p].pc = "vehicle_write"
    /\ Commit(p, WriteVehicle(StOf(p), reqs[p].body, reqs[p].existing, out),
              "request_insert")

SubmitInsertRequest(p, out) ==
    /\ reqs[p].pc = "request_insert"
    /\ Commit(p, CreatePermitRequest(StOf(p), reqs[p].body, reqs[p].t, out),
              IF IsAutoApproved(PermitTypeOf(reqs[p].body))
              THEN "approve" ELSE "done")

SubmitApprove(p, out) ==
    /\ reqs[p].pc = "approve"
    /\ Commit(p, ApproveRequest(StOf(p), out), "issue")

SubmitIssue(p, out) ==
    /\ reqs[p].pc = "issue"
    /\ Commit(p, IssuePermit(StOf(p), reqs[p].body, reqs[p].t, out), "done")

VehicleBegin(p, tenantId, body) ==
    LET pre == VehiclePrecheck(tenants, tenantId, body) IN
    /\ reqs[p].pc \in {"idle", "done"}
    /\ reqs' = [reqs EXCEPT ![p] =
           [pc |-> IF pre # 0 THEN "done" ELSE "vehicle_insert",
            code |-> pre, op |-> "vehicle", body |-> body, t |-> now,
            tenantId |-> tenantId, vehicleId |-> NoId,
            permitRequestId |-> NoId, existing |-> NoId,
            saw |-> {v.id : v \in vehicles}]]
    /\ UNCHANGED <<now, shift_reports, tables, resp, registry>>

VehicleInsert(p, insertOut) ==
    LET vehicle == NewVehicle(vehicles, reqs[p].tenantId, reqs[p].body)
        code == VehicleInsertCode(vehicles, vehicle, insertOut)
    IN
    /\ reqs[p].pc = "vehicle_insert"
    /\ vehicles' = IF code = 201 THEN vehicles \cup {vehicle} ELSE vehicles
    /\ reqs' = [reqs EXCEPT ![p].pc = "done", ![p].code = code,
                            ![p].vehicleId = IF code = 201 THEN vehicle.id
                                             ELSE NoId]
    /\ UNCHANGED <<now, shift_reports,
                   tables, resp, tenants, permit_requests, permits>>

RequestBegin(p, body) ==
    LET pre == PermitRequestPrecheck(body, now) IN
    /\ reqs[p].pc \in {"idle", "done"}
    /\ Cardinality(permit_requests) < MaxRequests
    /\ reqs' = [reqs EXCEPT ![p] =
           [pc |-> IF pre # 0 THEN "done" ELSE "request_only",
            code |-> pre, op |-> "permit-request", body |-> body, t |-> now,
            tenantId |-> NoId, vehicleId |-> NoId, permitRequestId |-> NoId,
            existing |-> NoId, saw |-> {}]]
    /\ UNCHANGED <<now, shift_reports, tables, resp, registry>>

RequestInsert(p, insertOut) ==
    LET permitRequest == NewPermitRequest(permit_requests, reqs[p].body) IN
    /\ reqs[p].pc = "request_only"
    /\ IF insertOut = "throws"
       THEN /\ Finish(p, 500)
            /\ UNCHANGED permit_requests
       ELSE /\ permit_requests' = permit_requests \cup {permitRequest}
            /\ reqs' = [reqs EXCEPT ![p].pc = "done", ![p].code = 201,
                                    ![p].permitRequestId = permitRequest.id]
    /\ UNCHANGED <<now, shift_reports,
                   tables, resp, tenants, vehicles, permits>>

\* bodies for POST /api/permit-requests: a window in the days to come for a
\* tenant and a vehicle of storage
StepRequestBodies ==
    LET day2 == ParseDate(DateText(InitialNow) + 2) IN
    {RequestBody(Some(x.id), Some(v.id), Some("resident"), Some(day2),
                 Some(day2 + MinutesPerDay)) :
        x \in tenants, v \in {y \in vehicles : y.license_plate = PlateABC123}}

NextSteps ==
    \/ \E p \in Procs, body \in StepBodies : SubmitBegin(p, body)
    \/ \E p \in Procs : SubmitSelectTenant(p)
    \/ \E p \in Procs, out \in StorageOutcomes : SubmitWriteTenant(p, out)
    \/ \E p \in Procs : SubmitSelectVehicle(p)
    \/ \E p \in Procs, out \in StorageOutcomes : SubmitWriteVehicle(p, out)
    \/ \E p \in Procs, out \in StorageOutcomes : SubmitInsertRequest(p, out)
    \/ \E p \in Procs, out \in StorageOutcomes : SubmitApprove(p, out)
    \/ \E p \in Procs, out \in StorageOutcomes : SubmitIssue(p, out)
    \/ \E p \in Procs, tenantId \in {x.id : x \in tenants} \cup {Uuid(0)},
          body \in StepVehicleBodies : VehicleBegin(p, tenantId, body)
    \/ \E p \in Procs, insertOut \in StorageOutcomes : VehicleInsert(p, insertOut)
    \/ \E p \in Procs, body \in StepRequestBodies : RequestBegin(p, body)
    \/ \E p \in Procs, insertOut \in StorageOutcomes : RequestInsert(p, insertOut)

SpecSteps == Init /\ [][NextSteps]_vars

(* ------------------------------------------ registry statements: claims *)
\* the transitions of the status of a permit request
StatusStep(from, to) ==
    \/ from = "pending"
       /\ to \in {"under_review", "approved", "rejected", "cancelled"}
    \/ from = "under_review" /\ to \in {"approved", "rejected"}

\* C25: every statement inserts permit requests as pending, changes the status
\* of a stored permit request only along pending -> {under_review, approved,
\* rejected, cancelled} and under_review -> {approved, rejected}, hence never
\* that of an approved, rejected or cancelled one, and removes none.
C25_RequestStateMachine ==
    [][/\ \A r \in permit_requests' :
            LET before == {q \in permit_requests : q.id = r.id} IN
            IF before = {} THEN r.status = "pending"
            ELSE \A q \in before :
                    q.status = r.status \/ StatusStep(q.status, r.status)
       /\ \A q \in permit_requests : \E r \in permit_requests' : r.id = q.id
      ]_vars

\* a request is between its UPDATE to 'approved' and its INSERT INTO permits
\* while a permit request made earlier is stored approved and another request
\* has inserted a pending one
C25_Witness ==
    \E p \in Procs :
        /\ reqs[p].pc = "issue"
        /\ \E r, q, o \in permit_requests :
              /\ r.id = reqs[p].permitRequestId /\ r.status = "approved"
              /\ q.id # r.id /\ q.status = "pending"
              /\ o.id \notin {r.id, q.id} /\ o.status = "approved"

(* ------------------------------------------------------- voiding: claims *)
\* C26: a void request that gives a reason is answered 409 when the ticket is
\* already voided and 404 when no violation has the ticket id, and in both
\* cases no violation row changes.
C26_DoubleVoidConflicts ==
    [][(now' = now /\ resp'.op = "void") =>
        \A voided_reason \in {Some("slip")}, updateOut \in StorageOutcomes :
            VoidTicket(resp'.id, voided_reason, updateOut) =>
                /\ (\E v \in violations : v.id = resp'.id /\ v.status = "voided")
                   => resp'.code = 409 /\ violations' = violations
                /\ (\A v \in violations : v.id # resp'.id)
                   => resp'.code = 404 /\ violations' = violations
      ]_vars

\* a void request was answered 409 for a ticket that was voided at an earlier
\* clock reading and still carries that reading
C26_Witness ==
    /\ resp.op = "void" /\ resp.code = 409
    /\ \E v \in violations :
          /\ v.id = resp.id /\ v.status = "voided"
          /\ v.voided_reason = Some("slip")
          /\ InstantOf(v.voided_at[1]) < now

\* two records name the same (license plate, jurisdiction)
SamePair(a, b) ==
    /\ a.license_plate = b.license_plate
    /\ a.state_province = b.state_province

\* the (license plate, jurisdiction) of p's request, as it is stored
PairOf(p) ==
    [license_plate |-> toUpperCase(reqs[p].body.license_plate),
     state_province |-> toUpperCase(reqs[p].body.state_province)]

\* p's INSERT INTO vehicles is answered by storage: when a row has p's pair
\* the request ends with 409 and no row changes, otherwise the one row of p is
\* added
InsertOutcome(p) ==
    IF \E v \in vehicles : SamePair(v, PairOf(p))
    THEN /\ vehicles' = vehicles
         /\ reqs'[p].pc = "done" /\ reqs'[p].code = 409
    ELSE /\ reqs'[p].code # 409
         /\ \E v \in vehicles' :
               /\ vehicles' = vehicles \cup {v}
               /\ \A x \in vehicles : x.id # v.id
               /\ SamePair(v, PairOf(p))
               /\ v.color = reqs[p].body.color

\* C27: no two rows of vehicles have the same (license plate, jurisdiction),
\* and an INSERT of a pair that a row already has, whichever request put it
\* there and however the two requests interleave, ends with 409 and changes
\* no row, while the INSERT of a pair that no row has adds one row.
C27_VehicleUniqueness ==
    /\ [](\A a, b \in vehicles : SamePair(a, b) => a = b)
    /\ [][\A p \in Procs :
            /\ (reqs[p].pc = "vehicle_write" /\ reqs[p].existing = NoId
                /\ SubmitWriteVehicle(p, "ok")) => InsertOutcome(p)
            /\ (reqs[p].pc = "vehicle_insert" /\ VehicleInsert(p, "ok"))
               => InsertOutcome(p)
         ]_vars

\* two requests raced for one pair: q looked at vehicles before p inserted
\* its row, q ended with 409, and the row is p's, with the colour p gave it
C27_Witness ==
    \E p, q \in Procs :
        /\ p # q
        /\ reqs[p].pc # "idle" /\ reqs[q].pc = "done"
        /\ reqs[q].code = 409
        /\ reqs[p].vehicleId # NoId
        /\ reqs[p].vehicleId \notin reqs[q].saw
        /\ reqs[p].body.color # reqs[q].body.color
        /\ \E v \in vehicles :
              /\ v.id = reqs[p].vehicleId
              /\ SamePair(v, PairOf(q))
              /\ v.color = reqs[p].body.color

(* ------------------------------------------------- offline queue: enqueue *)
\* C28: a queue request answered 201 adds exactly one row to offline_actions,
\* with is_synced false, no synced_at and the id the response carries; no
\* queue request changes a row of violations, warnings or
\* enforcement_activities or a row that offline_actions already has.
C28_EnqueueFrame ==
    [][(now' = now /\ resp'.op = "queue") =>
        /\ UNCHANGED <<violations, warnings, enforcement_activities>>
        /\ offline_actions \subseteq offline_actions'
        /\ IF resp'.code = 201
           THEN \E a \in offline_actions' :
                   /\ offline_actions' = offline_actions \cup {a}
                   /\ \A b \in offline_actions : b.id # a.id
                   /\ a.id = resp'.action_id
                   /\ ~a.is_synced /\ a.synced_at = NULL
           ELSE offline_actions' = offline_actions
      ]_vars

\* a ticket action was queued next to an action that a run of sync/process
\* had marked synced: the new action is unsynced and has no violation
C28_Witness ==
    /\ resp.op = "queue" /\ resp.code = 201
    /\ \E a, b \in offline_actions :
          /\ a.id = resp.action_id /\ a.action_type = "ticket"
          /\ ~a.is_synced /\ a.synced_at = NULL
          /\ \A v \in violations : v.id # a.action_data.id
          /\ b # a /\ b.is_synced
    /\ violations # {}

(* ------------------------------------- offline queue against live requests *)
\* the checks of POST /api/enforcement/warnings made before its INSERT: 0 when
\* they all pass (body.violation_fields stands for warning_type and
\* warning_reason here)
WarningPrecheck(body) ==
    IF \/ body.license_plate = << >> \/ body.state_province = << >>
       \/ body.issued_by = NoOfficer \/ ~body.violation_fields
    THEN 400
    ELSE IF ~validateLicensePlate(toUpperCase(body.license_plate),
                                  toUpperCase(body.state_province))
    THEN 400
    ELSE IF ~validateGPSCoordinates(body.gps_latitude, body.gps_longitude)
    THEN 400
    ELSE IF ~ActiveOfficer(body.issued_by)
    THEN 404
    ELSE 0

\* the body of the live request that carries the payload of an offline action
LiveBody(actionData) ==
    [license_plate |-> actionData.license_plate,
     state_province |-> actionData.state_province,
     issued_by |-> actionData.issued_by,
     violation_fields |-> actionData.required_fields,
     gps_latitude |-> Undefined, gps_longitude |-> Undefined]

\* the live endpoint of the action's type accepts the body in this state
LiveAccepts(type, body) ==
    IF type = "ticket"
    THEN /\ TicketPrecheck(body) = 0
         /\ ~checkDuplicateTicket(violations, now,
                                  toUpperCase(body.license_plate),
                                  toUpperCase(body.state_province),
                                  body.issued_by)
    ELSE WarningPrecheck(body) = 0

\* the rows of T' that T does not have are one row, for the body's plate,
\* jurisdiction and officer
OneNewRow(T, Tnext, body, officerField) ==
    /\ T \subseteq Tnext
    /\ \E r \in Tnext \ T :
          /\ Tnext = T \cup {r}
          /\ r.license_plate = toUpperCase(body.license_plate)
          /\ r.state_province = toUpperCase(body.state_province)
          /\ r[officerField] = body.issued_by

\* C29: a sync/process run over one ticket or warning action whose statements
\* succeed reports the action succeeded exactly when the live endpoint accepts
\* the action's payload in the same state, and then leaves what the live
\* endpoint leaves: one new violation or warning row and one new
\* enforcement_activities row of the action's type; otherwise it leaves the
\* three tables as they were.
C29_ReplayEquivalence ==
    [][ProcessResponded =>
       \A o \in {resp'.officer_id} :
        \A q \in OrderedByPerformedAt(Unsynced(offline_actions, o)) :
          (/\ Len(q) = 1
           /\ q[1].action_type \in {"ticket", "warning"}
           /\ Reconcile(o, q, <<Ok>>))
          => LET type == q[1].action_type
                 body == LiveBody(q[1].action_data)
             IN
             IF LiveAccepts(type, body)
             THEN /\ resp'.details[1].status = "success"
                  /\ IF type = "ticket"
                     THEN /\ OneNewRow(violations, violations', body, "issued_by")
                          /\ warnings' = warnings
                     ELSE /\ OneNewRow(warnings, warnings', body, "issued_by")
                          /\ violations' = violations
                  /\ OneNewRow(enforcement_activities, enforcement_activities',
                               body, "officer_id")
                  /\ \A e \in enforcement_activities' \ enforcement_activities :
                        e.activity_type = type
             ELSE /\ resp'.details[1].status = "error"
                  /\ UNCHANGED <<violations, warnings, enforcement_activities>>
      ]_vars

(* ------------------------------------ permit lifecycle: partial failures *)
\* submissions of two tenants for one plate and of one tenant for two
PartialBodies ==
    {PermitBody("a@x.io", PlateABC123, Undefined, Undefined, Undefined),
     PermitBody("b@x.io", PlateABC123, Undefined, Undefined, Undefined),
     PermitBody("a@x.io", PlateUnknown, Some("temporary"), Undefined, Undefined),
     PermitBody("b@x.io", PlateBad, Undefined, Undefined, Undefined)}

DoSubmitPartial ==
    \E body \in PartialBodies, outs \in SubmitFaults :
        SubmitPermitRequest(body, outs)

NextPartial ==
    \/ Tick(MaxTicks)
    \/ DoSubmitPartial

SpecPartial == Init /\ [][NextPartial]_vars

\* C30: when a submission is answered 409 or 500, what its statements wrote
\* before the failing one stays in storage: the tenant row once the tenant
\* statement succeeded, the vehicle row once the vehicle statement succeeded,
\* the permit request once its INSERT succeeded, and its status 'approved',
\* without a permit, once the UPDATE succeeded.
C30_PartialWritesPersist ==
    [][(now' = now /\ resp'.op = "submit" /\ resp'.code \in {409, 500}) =>
       \A body \in {resp'.body} : \A outs \in SubmitFaults :
          SubmitPermitRequest(body, outs) =>
             LET email == toLowerCase(body.email)
                 plate == toUpperCase(body.license_plate)
                 state == toUpperCase(body.state_province)
                 owners == {x \in tenants' : x.email = email}
                 owned == {v \in vehicles' :
                             /\ v.license_plate = plate
                             /\ v.state_province = state
                             /\ \E x \in owners : v.tenant_id = x.id}
                 made == {r \in permit_requests' :
                             \A q \in permit_requests : q.id # r.id}
                 tenantDone == outs.tenant = "ok"
                 vehicleDone ==
                    /\ tenantDone /\ outs.vehicle = "ok"
                    /\ \A v \in vehicles :
                          (v.license_plate = plate /\ v.state_province = state)
                          => \E x \in owners : v.tenant_id = x.id
                 requestDone == vehicleDone /\ outs.request = "ok"
                 approveDone ==
                    /\ requestDone /\ outs.approve = "ok"
                    /\ IsAutoApproved(PermitTypeOf(body))
             IN
             /\ tenantDone => owners # {}
             /\ vehicleDone => owned # {}
             /\ requestDone => Cardinality(made) = 1
             /\ approveDone =>
                   \A r \in made :
                      /\ r.status = "approved"
                      /\ \A p \in permits' : p.permit_request_id # r.id
      ]_vars

\* a submission was answered 409 on its vehicle INSERT, and the tenant it had
\* inserted before is in storage, with no vehicle and no permit request
C30_Witness ==
    /\ resp.op = "submit" /\ resp.code = 409
    /\ \E x \in tenants :
          /\ x.email = toLowerCase(resp.body.email)
          /\ \A v \in vehicles : v.tenant_id # x.id
          /\ \A r \in permit_requests : r.tenant_id # x.id
    /\ \E v \in vehicles :
          /\ v.license_plate = toUpperCase(resp.body.license_plate)
          /\ v.state_province = toUpperCase(resp.body.state_province)

(* --------------------------------------- voided tickets in later decisions *)
\* the tickets the plate has collected before the run starts at t: none, or
\* three within the last 30 days
VoidHistories(plate, t) ==
    {{}, {HistoricViolation(n, plate, DaysBefore(t, n), "issued") : n \in 1..3}}

InitVoided ==
    /\ now = InitialNow
    /\ violations \in VoidHistories(PlateABC123, InitialNow)
    /\ warnings = {}
    /\ enforcement_activities = {}
    /\ offline_actions = {}
    /\ resp = [op |-> "none", code |-> 0]
    /\ reqs = [p \in Procs |-> [pc |-> "idle"]]
    /\ tenants = {}
    /\ vehicles = {}
    /\ permit_requests = {}
    /\ permits = {}
    /\ shift_reports = {}

\* the submission that registers the plate
DoRegisterPlate ==
    SubmitPermitRequest(
        PermitBody("a@x.io", PlateABC123, Undefined, Undefined, Undefined),
        SubmitOk)

DoTicketPlate ==
    \E body \in RaceBodies, insertOut \in StorageOutcomes :
        IssueTicket(body, insertOut, "ok")

DoLookupPlate ==
    \E param \in {PlateABC123, PlateUnknown} :
        Lookup(param, Undefined, Undefined, "ok")

NextVoided ==
    \/ Tick(MaxTicketTicks)
    \/ DoRegisterPlate
    \/ DoTicketPlate
    \/ DoVoidTicket
    \/ DoLookupPlate

SpecVoided == InitVoided /\ [][NextVoided]_vars

\* the violations of the plate and jurisdiction that are not voided
NotVoided(plate, state) ==
    {v \in violations :
        /\ v.license_plate = plate /\ v.state_province = state
        /\ v.status # "voided"}

\* C31: a live ticket request that passes validation is not answered 409 when
\* every violation of its officer for its plate and jurisdiction is voided;
\* and a lookup result lists no voided violation, counts at most the
\* non-voided violations of the plate in violation_count_30_days and reports
\* is_repeat_offender only when 3 or more of them are not voided.
C31_VoidedIgnored ==
    /\ [][(now' = now /\ resp'.op = "ticket") =>
           \A body \in {resp'.body} : \A insertOut, logOut \in StorageOutcomes :
              (/\ IssueTicket(body, insertOut, logOut)
               /\ TicketPrecheck(body) = 0
               /\ \A v \in violations :
                     (/\ v.license_plate = toUpperCase(body.license_plate)
                      /\ v.state_province = toUpperCase(body.state_province)
                      /\ v.issued_by = body.issued_by)
                     => v.status = "voided")
              => resp'.code # 409
         ]_vars
    /\ [][LookupResponded =>
           LET kept == NotVoided(resp'.license_plate, resp'.state_province) IN
           /\ \A v \in violations :
                 v.status = "voided" => v.id \notin resp'.recent_violations
           /\ resp'.violation_count_30_days <= Cardinality(kept)
           /\ resp'.is_repeat_offender
                 => Cardinality(kept) >= RepeatOffenderCount
         ]_vars

\* a lookup counted one violation for a plate that has two: a voided one, and
\* one the same officer issued after the voiding, at an instant at which the
\* duplicate check would have matched the first had it not been voided
C31_Witness ==
    /\ FreshLookup
    /\ resp.violation_count_30_days = 1
    /\ \E v, w \in violations :
          /\ v.status = "voided" /\ w.status = "issued"
          /\ v.license_plate = resp.license_plate
          /\ w.license_plate = v.license_plate
          /\ w.state_province = v.state_province
          /\ w.issued_by = v.issued_by
          /\ w.rowid > v.rowid
          /\ TextGreater(v.issued_at,
                         toISOString(InstantOf(w.issued_at) - OneHourMinutes))
          /\ resp.recent_violations = {w.id}

(* ------------------------------------------------ revoked permits: lookups *)
\* The API has no statement that clears permits.is_active; a permit is
\* revoked by an UPDATE made on the database directly.  The runs start with
\* the guest permit of one submission, valid from day 0 until day 1 or day 2,
\* revoked since or not.
InitRevoked ==
    /\ now = InitialNow
    /\ violations = {}
    /\ warnings = {}
    /\ enforcement_activities = {}
    /\ offline_actions = {}
    /\ resp = [op |-> "none", code |-> 0]
    /\ reqs = [p \in Procs |-> [pc |-> "idle"]]
    /\ shift_reports = {}
    /\ tenants = {[id |-> Uuid(1), email |-> "a@x.io", is_active |-> TRUE]}
    /\ vehicles = {[id |-> Uuid(1), tenant_id |-> Uuid(1),
                    license_plate |-> PlateABC123, state_province |-> StateCA,
                    color |-> "red"]}
    /\ \E until \in {DateText(InitialNow) + 1, DateText(InitialNow) + 2},
          active \in BOOLEAN :
          /\ permit_requests =
                {[id |-> Uuid(1), tenant_id |-> Uuid(1), vehicle_id |-> Uuid(1),
                  permit_type_id |-> "guest",
                  requested_start_date |-> DateText(InitialNow),
                  requested_end_date |-> until,
                  status |-> "approved"]}
          /\ permits =
                {[id |-> Uuid(1), permit_request_id |-> Uuid(1),
                  tenant_id |-> Uuid(1), vehicle_id |-> Uuid(1),
                  permit_type_id |-> "guest",
                  valid_from |-> DateText(InitialNow),
                  valid_until |-> until,
                  is_active |-> active]}

NextRevoked ==
    \/ Advance
    \/ DoSubmitForLookup
    \/ DoLookup

SpecRevoked == InitRevoked /\ [][NextRevoked]_vars

\* C32: a lookup answers authorized only for a vehicle with an active permit
\* whose window contains now, and grace_period only for a vehicle with an
\* active permit within its grace margin; it lists no inactive permit.  So a
\* vehicle whose only permit covering now is inactive is not authorized.
C32_InactiveNeverAuthorizes ==
    [][LookupResponded =>
        LET ps == PermitsOfPlate(resp'.license_plate, resp'.state_province) IN
        /\ resp'.current_status = "authorized"
              => \E p \in ps : p.is_active /\ Covers(p, now)
        /\ resp'.current_status = "grace_period"
              => \E p \in ps : p.is_active /\ WithinGrace(p, now)
        /\ \A p \in permits : ~p.is_active => p.id \notin resp'.active_permits
      ]_vars

\* a lookup of a vehicle whose only permits covering now are revoked was
\* answered, and not with authorized or grace_period
C32_Witness ==
    /\ FreshLookup
    /\ resp.current_status \notin {"authorized", "grace_period"}
    /\ LET ps == PermitsOfPlate(resp.license_plate, resp.state_province) IN
       /\ \E p \in ps : ~p.is_active /\ Covers(p, now)
       /\ \A p \in ps : Covers(p, now) => ~p.is_active

(* ======================================================================= *)
(* Shifts: POST /api/enforcement/shifts/start and /shifts/end              *)
(* ======================================================================= *)
\* rows of shift_reports
MaxShifts == 2

\* SELECT id FROM shift_reports WHERE officer_id = ?
\*   AND shift_date = DATE('now') AND shift_end_time IS NULL
OpenShift(DB, officer_id, t) ==
    {r \in DB : /\ r.officer_id = officer_id
                /\ r.shift_date = SqlDate(t, 0)
                /\ r.shift_end_time = NULL}

\* (mutant) shifts/start without its existing-shift check
ShiftStartCode_NoConflict(body, t) ==
    IF body.officer_id = NoOfficer THEN 400
    ELSE IF ~validateGPSCoordinates(body.gps_latitude, body.gps_longitude)
    THEN 400
    ELSE IF ~ActiveOfficer(body.officer_id) THEN 404
    ELSE 0

\* the checks of shifts/start made before its INSERT: 0 when they all pass
ShiftStartCode(body, t) ==
    IF body.officer_id = NoOfficer THEN 400
    ELSE IF ~validateGPSCoordinates(body.gps_latitude, body.gps_longitude)
    THEN 400
    ELSE IF ~ActiveOfficer(body.officer_id) THEN 404
    ELSE IF OpenShift(shift_reports, body.officer_id, t) # {} THEN 409
    ELSE 0

\* the row INSERT INTO shift_reports writes: shift_date is bound as
\* toISOString().split('T')[0], the totals take their column default 0
NewShift(DB, body, t) ==
    [id |-> generateId(DB),
     officer_id |-> body.officer_id,
     shift_date |-> DateText(t),
     shift_start_time |-> toISOString(t),
     shift_end_time |-> NULL,
     total_scans |-> 0,
     total_tickets |-> 0,
     total_warnings |-> 0,
     total_violations_found |-> 0]

\* the audit row logged when a shift starts or ends
ShiftActivity(DB, officer_id, type, result, t) ==
    [rowid |-> NextRowid(DB),
     id |-> generateId(DB),
     officer_id |-> officer_id,
     activity_type |-> type,
     license_plate |-> NULL,
     state_province |-> NULL,
     result |-> result,
     performed_at |-> toISOString(t)]

\* The whole handler of one shifts/start request.  MaxShifts bounds the
\* shifts that get created, not the calls.
StartShift(body, insertOut, logOut) ==
    LET pre == ShiftStartCode(body, now)
        shift == NewShift(shift_reports, body, now)
        activity == ShiftActivity(enforcement_activities, body.officer_id,
                                  "shift_start", "shift_started", now)
    IN
    /\ pre = 0 => Cardinality(shift_reports) < MaxShifts
    /\ IF pre # 0
       THEN /\ resp' = [op |-> "shift-start", code |-> pre, body |-> body]
            /\ UNCHANGED <<shift_reports, enforcement_activities>>
       ELSE IF insertOut = "throws"
       THEN /\ resp' = [op |-> "shift-start", code |-> 500, body |-> body]
            /\ UNCHANGED <<shift_reports, enforcement_activities>>
       ELSE IF logOut = "throws"
       THEN /\ resp' = [op |-> "shift-start", code |-> 500, body |-> body]
            /\ shift_reports' = shift_reports \cup {shift}
            /\ UNCHANGED enforcement_activities
       ELSE /\ resp' = [op |-> "shift-start", code |-> 201, body |-> body,
                        shift_id |-> shift.id]
            /\ shift_reports' = shift_reports \cup {shift}
            /\ enforcement_activities' = enforcement_activities \cup {activity}
    /\ UNCHANGED <<now, violations, warnings, offline_actions, reqs, registry>>

\* SELECT COUNT(CASE WHEN activity_type = ? THEN 1 END) FROM
\* enforcement_activities WHERE officer_id = ?
\*   AND DATE(performed_at) = DATE('now')
ShiftStats(DB, officer_id, type, t) ==
    Cardinality({e \in DB : /\ e.officer_id = officer_id
                            /\ e.performed_at.day = SqlDate(t, 0)
                            /\ e.activity_type = type})

\* UPDATE shift_reports SET shift_end_time = CURRENT_TIMESTAMP, total_... = ?
\* WHERE id = ?
CloseShift(DB, id, officer_id, t) ==
    {IF r.id = id
     THEN [r EXCEPT
            !.shift_end_time = Some(CurrentTimestamp(t)),
            !.total_scans =
                ShiftStats(enforcement_activities, officer_id, "scan", t),
            !.total_tickets =
                ShiftStats(enforcement_activities, officer_id, "ticket", t),
            !.total_warnings =
                ShiftStats(enforcement_activities, officer_id, "warning", t),
            !.total_violations_found =
                ShiftStats(enforcement_activities, officer_id, "ticket", t)
                + ShiftStats(enforcement_activities, officer_id, "warning", t)]
     ELSE r : r \in DB}

\* The whole handler of one shifts/end request; activeShift is the row that
\* .first() returns.
EndShift(body, updateOut, logOut) ==
    LET open == OpenShift(shift_reports, body.officer_id, now)
        activity == ShiftActivity(enforcement_activities, body.officer_id,
                                  "shift_end", "shift_ended", now)
    IN
    /\ IF body.officer_id = NoOfficer
       THEN /\ resp' = [op |-> "shift-end", code |-> 400, body |-> body]
            /\ UNCHANGED <<shift_reports, enforcement_activities>>
       ELSE IF open = {}
       THEN /\ resp' = [op |-> "shift-end", code |-> 404, body |-> body]
            /\ UNCHANGED <<shift_reports, enforcement_activities>>
       ELSE IF updateOut = "throws"
       THEN /\ resp' = [op |-> "shift-end", code |-> 500, body |-> body]
            /\ UNCHANGED <<shift_reports, enforcement_activities>>
       ELSE \E activeShift \in open :
            /\ shift_reports' = CloseShift(shift_reports, activeShift.id,
                                           body.officer_id, now)
            /\ IF logOut = "throws"
               THEN /\ resp' = [op |-> "shift-end", code |-> 500,
                                body |-> body]
                    /\ UNCHANGED enforcement_activities
               ELSE /\ resp' = [op |-> "shift-end", code |-> 200,
                                body |-> body, shift_id |-> activeShift.id]
                    /\ enforcement_activities' =
                           enforcement_activities \cup {activity}
    /\ UNCHANGED <<now, violations, warnings, offline_actions, reqs, registry>>

ShiftBody(officer) ==
    [officer_id |-> officer, gps_latitude |-> Undefined,
     gps_longitude |-> Undefined]

ShiftBodies ==
    {ShiftBody(o) : o \in {"O1", "O2", "O3", NoOfficer}}
    \cup {[ShiftBody("O1") EXCEPT !.gps_latitude = Some(91)]}

DoStartShift ==
    \E body \in ShiftBodies, insertOut, logOut \in StorageOutcomes :
        StartShift(body, insertOut, logOut)

\* storage faults are drawn for the UPDATE of shifts/end and for both
\* INSERTs of shifts/start
DoEndShift ==
    \E body \in ShiftBodies, updateOut \in StorageOutcomes :
        EndShift(body, updateOut, "ok")

NextShifts ==
    \/ Tick(MaxTicketTicks)
    \/ DoStartShift
    \/ DoEndShift

SpecShifts == Init /\ [][NextShifts]_vars

\* the shifts of the officer without end time
Unended(officer_id) ==
    {r \in shift_reports : r.officer_id = officer_id /\ r.shift_end_time = NULL}

\* C33: an officer never has two open shifts dated today; a shifts/start
\* request that passes validation while its officer has an open shift dated
\* today is answered 409 and writes nothing; a shifts/end request that names
\* an officer without an open shift is answered 404 and writes nothing.
C33_ShiftLifecycle ==
    /\ [](\A o \in OfficerIds :
            Cardinality({r \in Unended(o) : r.shift_date = DateText(now)}) <= 1)
    /\ [][(now' = now /\ resp'.op = "shift-start") =>
           \A body \in {resp'.body} :
              (/\ body.officer_id # NoOfficer
               /\ validateGPSCoordinates(body.gps_latitude, body.gps_longitude)
               /\ \E r \in Unended(body.officer_id) :
                     r.shift_date = DateText(now))
              => /\ resp'.code = 409
                 /\ UNCHANGED <<shift_reports, enforcement_activities>>
         ]_vars
    /\ [][(now' = now /\ resp'.op = "shift-end") =>
           \A body \in {resp'.body} :
              (body.officer_id # NoOfficer /\ Unended(body.officer_id) = {})
              => /\ resp'.code = 404
                 /\ UNCHANGED <<shift_reports, enforcement_activities>>
         ]_vars

\* an officer who had started, ended and started a shift again on one day
\* asked for another start and was answered 409
C33_Witness ==
    /\ resp.op = "shift-start" /\ resp.code = 409
    /\ \E r, q \in shift_reports :
          /\ r.officer_id = resp.body.officer_id
          /\ q.officer_id = r.officer_id
          /\ r.shift_date = DateText(now) /\ q.shift_date = r.shift_date
          /\ r.shift_end_time = NULL
          /\ q.shift_end_time # NULL

(* ------------------------------------------ offline queue: run accounting *)
\* C34: in the response of every sync/process run success_count plus
\* error_count is total_processed, the number of actions the run loaded.
C34_CountsAddUp ==
    [][ProcessResponded =>
        resp'.success_count + resp'.error_count = resp'.total_processed
      ]_vars

(* ------------------------------------------- offline queue: eventual sync *)
\* a sync/process run for the officer in which every statement is executed
\* by the storage (constraints are still enforced)
ReconcileWorking(officer_id) ==
    \E unsyncedActions \in
            OrderedByPerformedAt(Unsynced(offline_actions, officer_id)) :
        Reconcile(officer_id, unsyncedActions,
                  [i \in 1..Len(unsyncedActions) |-> Ok])

\* the offline queue with clients that go on calling sync/process: for each
\* officer, runs on working storage keep coming
SpecEventually ==
    /\ Init
    /\ [][Next]_vars
    /\ \A o \in SyncOfficers : WF_vars(ReconcileWorking(o))

\* the n-th queued action is unsynced while the record it was replayed into
\* exists: its INSERT succeeded and its mark-synced UPDATE did not
InsertedNotMarked(n) ==
    \E a \in offline_actions :
        /\ a.id = Uuid(n)
        /\ ~a.is_synced
        /\ a.action_type \in KnownTypes
        /\ RowsWithId(TargetTable(a, violations, warnings,
                                  enforcement_activities),
                      a.action_data.id) # {}
        /\ \A b \in offline_actions :
              (b.action_type = a.action_type
                  /\ b.action_data.id = a.action_data.id) => b = a

MarkedSynced(n) ==
    \E a \in offline_actions : a.id = Uuid(n) /\ a.is_synced

\* C35: an offline action whose record was inserted and whose mark-synced
\* UPDATE failed is eventually marked synced by a later sync/process run.
C35_EventualSync ==
    \A n \in 1..MaxActions : InsertedNotMarked(n) ~> MarkedSynced(n)

(* ------------------------------------------------ lookups: what they write *)
\* the data a lookup of (plate, state) returns in the present state
LookupAnswer(plate, state) ==
    IF VehicleInfo(plate, state) = {}
    THEN UnregisteredResult(plate, state)
    ELSE RegisteredResult(CHOOSE v \in VehicleInfo(plate, state) : TRUE,
                          plate, state, now)

\* lookups of a plate with a history, within the hour after the run starts
NextReadOnly ==
    \/ Tick(MaxTicks)
    \/ DoSubmitForLookup
    \/ DoLookup

SpecReadOnly == InitLookup /\ [][NextReadOnly]_vars

\* C36: a lookup changes no row of permits, permit_requests, violations,
\* warnings or offline_actions; answered with a result for a request that
\* carries an officer_id it adds exactly one enforcement_activities row, a
\* scan of that officer, and otherwise none; and a second lookup of the same
\* plate made right after it, at the same instant, returns the same status
\* and recommended action.
C36_LookupReadOnly ==
    [][(now' = now /\ resp'.op = "lookup") =>
        /\ UNCHANGED <<violations, warnings, offline_actions, registry>>
        /\ resp'.code # 200 => UNCHANGED enforcement_activities
        /\ resp'.code = 200 =>
              \A plate \in {resp'.license_plate},
                 state \in {resp'.state_province} :
                 LET again == LookupAnswer(plate, state)' IN
                 /\ again.current_status = resp'.current_status
                 /\ again.recommended_action = resp'.recommended_action
                 /\ \A param \in {PlateABC123, PlateLower, PlateUnknown},
                       query \in {Undefined, Some(StateCA), Some(StateNY)},
                       officerId \in {Undefined, Some("O1"),
                                      Some(UnknownOfficer)} :
                       (/\ toUpperCase(param) = plate
                        /\ query # Undefined => query[1] = state
                        /\ Lookup(param, query, officerId, "ok"))
                       => IF officerId # Undefined
                          THEN \E e \in enforcement_activities' :
                                  /\ e \notin enforcement_activities
                                  /\ enforcement_activities' =
                                         enforcement_activities \cup {e}
                                  /\ e.activity_type = "scan"
                                  /\ e.officer_id = officerId[1]
                          ELSE UNCHANGED enforcement_activities
      ]_vars

\* a lookup with an officer_id of a registered plate without permit in force
\* and without warning was answered: its scan row is stored, and it is the
\* only row of enforcement_activities
C36_Witness ==
    /\ FreshLookup
    /\ resp.recommended_action = "warning"
    /\ \E e \in enforcement_activities :
          /\ enforcement_activities = {e}
          /\ e.activity_type = "scan"
          /\ e.officer_id = "O1"
          /\ e.license_plate = resp.license_plate
          /\ e.state_province = resp.state_province
          /\ e.performed_at = toISOString(now)

(* ------------------------------------------- live tickets: error responses *)
\* C38: a live ticket request that is answered with an error (400, 404, 409
\* or 500) has created no violation row.
C38_AllOrNothing ==
    [][(now' = now /\ resp'.op = "ticket" /\ resp'.code # 201)
          => violations' = violations
      ]_vars

(* --------------------------------------------- offline queue: attribution *)
\* requests to the queue endpoint whose payload names the queueing officer,
\* and requests whose payload names another officer
AttributionBodies(t) ==
    {QueueBody("O1", type, Payload(ClientId(1), PlateABC123, StateCA, o, TRUE), t) :
        type \in KnownTypes, o \in {"O1", "O2"}}
    \cup {QueueBody("O2", "ticket",
                    Payload(ClientId(2), PlateABC123, StateCA, "O2", TRUE), t)}

DoEnqueueAttributed ==
    \E body \in AttributionBodies(InitialNow), insertOut \in StorageOutcomes :
        Enqueue(body, insertOut)

NextAttribution ==
    \/ Tick(MaxTicks)
    \/ DoEnqueueAttributed
    \/ DoReconcile

SpecAttribution == Init /\ [][NextAttribution]_vars

\* C39: every violation and warning that a sync/process run for an officer
\* creates has that officer as issued_by, and every activity it creates has
\* that officer as officer_id.
C39_ReplayAttribution ==
    [][ProcessResponded =>
        /\ \A v \in violations' \ violations : v.issued_by = resp'.officer_id
        /\ \A w \in warnings' \ warnings : w.issued_by = resp'.officer_id
        /\ \A e \in enforcement_activities' \ enforcement_activities :
              e.officer_id = resp'.officer_id
      ]_vars

(* ------------------------------- sync/process, one statement at a time *)
\* A request p runs the handler of POST /api/enforcement/sync/process with
\* the other request interleaved at its awaits: the query for the unsynced
\* actions, then for each action of the result the INSERT of its switch case
\* and the mark-synced UPDATE.  reqs[p] holds the locals of the handler:
\* queue is unsyncedActions.results and i the position of the loop.  The
\* storage executes every statement (constraints are enforced).
ConcurrentBodies(t) ==
    {QueueBody("O1", "ticket", Payload(ClientId(1), PlateABC123, StateCA, "O1", TRUE), t),
     QueueBody("O1", "scan", Payload(ClientId(2), PlateABC123, StateCA, "O1", TRUE),
               t - TickStep),
     QueueBody("O1", "patrol", Payload(ClientId(3), PlateABC123, StateCA, "O1", TRUE), t),
     QueueBody("O2", "warning", Payload(ClientId(4), PlateABC123, StateCA, "O2", TRUE), t)}

\* the device queues every action once: it gives each action a fresh id
DoEnqueueConcurrent ==
    \E body \in ConcurrentBodies(InitialNow) :
        /\ \A a \in offline_actions : a.action_data.id # body.action_data[1].id
        /\ Enqueue(body, "ok")

\* the locals of request p and the tables, as the loop body sees them
RunState(p) ==
    [violations |-> violations,
     warnings |-> warnings,
     enforcement_activities |-> enforcement_activities,
     offline_actions |-> offline_actions,
     successCount |-> reqs[p].successCount,
     errorCount |-> reqs[p].errorCount,
     processResults |-> reqs[p].processResults]

\* the statement of request p has left st behind; the handler goes on at pc,
\* or with the next action when pc is "next", or returns after the last one
Resume(p, st, pc) ==
    /\ violations' = st.violations
    /\ warnings' = st.warnings
    /\ enforcement_activities' = st.enforcement_activities
    /\ offline_actions' = st.offline_actions
    /\ reqs' = [reqs EXCEPT ![p] =
          [@ EXCEPT !.successCount = st.successCount,
                    !.errorCount = st.errorCount,
                    !.processResults = st.processResults,
                    !.pc = IF pc # "next" THEN pc
                           ELSE IF reqs[p].i < Len(reqs[p].queue)
                                THEN "switch" ELSE "done",
                    !.i = IF pc = "next" /\ @ < Len(reqs[p].queue)
                          THEN @ + 1 ELSE @]]
    /\ UNCHANGED <<now, resp, registry, shift_reports>>

\* the officer_id check and the query for the unsynced actions
ReconcileBegin(p, officer_id) ==
    /\ reqs[p].pc \in {"idle", "done"}
    /\ \E unsyncedActions \in
              OrderedByPerformedAt(Unsynced(offline_actions, officer_id)) :
          reqs' = [reqs EXCEPT ![p] =
              [pc |-> IF officer_id = NoOfficer \/ Len(unsyncedActions) = 0
                      THEN "done" ELSE "switch",
               code |-> IF officer_id = NoOfficer THEN 400 ELSE 200,
               officer_id |-> officer_id,
               queue |-> IF officer_id = NoOfficer THEN << >>
                         ELSE unsyncedActions,
               i |-> 1,
               successCount |-> 0,
               errorCount |-> 0,
               processResults |-> << >>]]
    /\ UNCHANGED <<now, tables, resp, registry, shift_reports>>

\* the switch on the type of the action at hand, with its INSERT
ReconcileSwitch(p) ==
    /\ reqs[p].pc = "switch"
    /\ LET action == reqs[p].queue[reqs[p].i]
           sw == ReplaySwitch(RunState(p), action, "ok")
       IN IF sw.thrown
          THEN Resume(p, CatchActionError(sw.st, action), "next")
          ELSE Resume(p, sw.st, "mark")

\* mutant: the UPDATE leaves the action as it was
ReconcileMark_SkipsUpdate(p) ==
    /\ reqs[p].pc = "mark"
    /\ LET action == reqs[p].queue[reqs[p].i]
           st == RunState(p)
       IN Resume(p, [st EXCEPT
                        !.processResults =
                            Append(@, Detail(action, "success"))],
                 "next")

\* the mark-synced UPDATE of the action at hand and the push of its result
ReconcileMark(p) ==
    /\ reqs[p].pc = "mark"
    /\ LET action == reqs[p].queue[reqs[p].i]
           st == RunState(p)
       IN Resume(p, [st EXCEPT
                        !.offline_actions = MarkSynced(@, action.id, now),
                        !.processResults =
                            Append(@, Detail(action, "success"))],
                 "next")

NextConcurrent ==
    \/ Tick(MaxTicks)
    \/ DoEnqueueConcurrent
    \/ \E p \in Procs, officer_id \in SyncOfficers \cup {NoOfficer} :
          ReconcileBegin(p, officer_id)
    \/ \E p \in Procs : ReconcileSwitch(p)
    \/ \E p \in Procs : ReconcileMark(p)

SpecConcurrent == Init /\ [][NextConcurrent]_vars

\* the rows the action was replayed into
RecordsOf(action) ==
    RowsWithId(TargetTable(action, violations, warnings,
                           enforcement_activities),
               action.action_data.id)

====
